---- MODULE Spec2Model ----
(***************************************************************************)
(* A model of the SOTA client's chunked transfer engine:                   *)
(*   persistence.rs      Transfer (write_chunk, assemble_package, Drop)    *)
(*   handler/service.rs  ServiceHandler (dispatcher, timeout sweeper)      *)
(*   main_loop.rs        start (thread wiring, coordinator loop)           *)
(* The per-service message handlers (handler/start.rs, chunk.rs, ...),     *)
(* the jsonrpc module and the message module are modelled from the         *)
(* specification's sections 3, 4.3, 4.4 and 6.                             *)
(*                                                                         *)
(* Conventions: an Option is a sequence of length 0 (None) or 1 (Some);   *)
(* a HashMap or a directory is a function whose DOMAIN is its key set;     *)
(* a byte string is a sequence of 0..255; a text whose characters are      *)
(* inspected (a base64 payload, a hex digest) is a sequence of             *)
(* one-character strings.                                                  *)
(***************************************************************************)
EXTENDS Integers, Sequences, FiniteSets, TLC

VARIABLES
    now,              \* the system clock, time::get_time().sec
    timeout,          \* conf.client.timeout: Option<i64>
    package_ids,      \* the PackageIds the backend talks about in this run
    transfers,        \* Arc<Mutex<Transfers>>: PackageId -> Transfer
    chunk_dirs,       \* the directories under {storage_dir}/downloads
    package_files,    \* the files under {storage_dir}/packages
    services,         \* ServiceHandler.services: Mutex<BackendServices>
    channel,          \* the mpsc channel tx_main -> rx_main
    tasks,            \* the RPC server's request tasks
    sweeper,          \* the thread running ServiceHandler::start_timer
    coordinator,      \* the loop at the end of main_loop::start
    backend_services, \* the coordinator's local BackendServices
    call              \* the last method called on a Transfer driven directly

vars == <<now, timeout, package_ids, transfers, chunk_dirs, package_files,
          services, channel, tasks, sweeper, coordinator, backend_services, call>>

-----------------------------------------------------------------------------
(* Bounds of the model *)

\* the clock runs from 0 to MaxTime
MaxTime == 3
\* the configured timeout, when one is configured
TimeoutSecs == 1
\* chunk indices are 9..(9 + MaxIndex)
MaxIndex == 1
\* number of concurrently served requests
NumTasks == 1
\* requests are accepted while fewer than MaxChannel notifications are pending
MaxChannel == 1

-----------------------------------------------------------------------------
(* Options and maps *)

None == <<>>
Some(x) == <<x>>
IsSome(o) == Len(o) = 1
Unwrap(o) == o[1]

EmptyMap == <<>>
Put(f, k, v) == [x \in (DOMAIN f) \cup {k} |-> IF x = k THEN v ELSE f[x]]
Del(f, k) == [x \in (DOMAIN f) \ {k} |-> f[x]]

Min(S) == CHOOSE x \in S : \A y \in S : x <= y

RECURSIVE Flatten(_)
Flatten(ss) == IF ss = <<>> THEN <<>> ELSE Head(ss) \o Flatten(Tail(ss))

-----------------------------------------------------------------------------
(* PackageId and the paths derived from it *)

PackageId(name, version) == [name |-> name, version |-> version]

\* impl Display for PackageId: "{name}-{version}"
Display(package) == package.name \o "-" \o package.version

storage_dir == "/var/sota"

-----------------------------------------------------------------------------
(* rustc_serialize::base64::FromBase64 *)

B64Alphabet ==
    << "A", "B", "C", "D", "E", "F", "G", "H", "I", "J", "K", "L", "M",
       "N", "O", "P", "Q", "R", "S", "T", "U", "V", "W", "X", "Y", "Z",
       "a", "b", "c", "d", "e", "f", "g", "h", "i", "j", "k", "l", "m",
       "n", "o", "p", "q", "r", "s", "t", "u", "v", "w", "x", "y", "z",
       "0", "1", "2", "3", "4", "5", "6", "7", "8", "9", "+", "/" >>

\* the decode table: 0..63 a sextet, 64 a newline, 65 '=', 66 invalid
B64Index == [c \in {B64Alphabet[i] : i \in 1..64} |->
                CHOOSE i \in 1..64 : B64Alphabet[i] = c]

B64Code(c) ==
    IF c \in DOMAIN B64Index THEN B64Index[c] - 1
    ELSE IF c = "-" THEN 62
    ELSE IF c = "_" THEN 63
    ELSE IF c \in {"\n", "\r"} THEN 64
    ELSE IF c = "=" THEN 65
    ELSE 66

\* the bytes of a full group of four sextets
B64Group(s) ==
    << s[1] * 4 + (s[2] \div 16),
       (s[2] % 16) * 16 + (s[3] \div 4),
       (s[3] % 4) * 64 + s[4] >>

\* after the first '=': only '=', CR and LF may follow
RECURSIVE B64TailOk(_)
B64TailOk(msg) ==
    IF msg = <<>> THEN TRUE
    ELSE Head(msg) \in {"=", "\r", "\n"} /\ B64TailOk(Tail(msg))

\* the bytes of the last, incomplete group; a single sextet is a length error
B64Finish(r, buf) ==
    CASE Len(buf) = 0 -> [ok |-> TRUE, bytes |-> r]
      [] Len(buf) = 2 -> [ok |-> TRUE, bytes |-> r \o << buf[1] * 4 + (buf[2] \div 16) >>]
      [] Len(buf) = 3 -> [ok |-> TRUE,
                          bytes |-> r \o << buf[1] * 4 + (buf[2] \div 16),
                                            (buf[2] % 16) * 16 + (buf[3] \div 4) >>]
      [] OTHER -> [ok |-> FALSE, bytes |-> <<>>]

RECURSIVE B64Decode(_, _, _)
B64Decode(msg, r, buf) ==
    IF msg = <<>> THEN B64Finish(r, buf)
    ELSE LET code == B64Code(Head(msg)) IN
         CASE code = 64 -> B64Decode(Tail(msg), r, buf)
           [] code = 65 -> IF B64TailOk(Tail(msg)) THEN B64Finish(r, buf)
                           ELSE [ok |-> FALSE, bytes |-> <<>>]
           [] code = 66 -> [ok |-> FALSE, bytes |-> <<>>]
           [] OTHER -> IF Len(buf) = 3
                       THEN B64Decode(Tail(msg), r \o B64Group(Append(buf, code)), <<>>)
                       ELSE B64Decode(Tail(msg), r, Append(buf, code))

from_base64(msg) == B64Decode(msg, <<>>, <<>>)

-----------------------------------------------------------------------------
(* crypto::sha1::Sha1, input() then result_str(): a digest of the whole     *)
(* input rendered as a fixed-width lower-case hex string.  The model keeps  *)
(* the interface and replaces the compression function by a 16-bit rolling  *)
(* digest, so that distinct inputs may in principle collide.                *)

HexDigits == << "0", "1", "2", "3", "4", "5", "6", "7",
                "8", "9", "a", "b", "c", "d", "e", "f" >>

RECURSIVE Sha1State(_, _)
Sha1State(h, data) ==
    IF data = <<>> THEN h
    ELSE Sha1State((h * 33 + Head(data) + 1) % 65536, Tail(data))

Sha1Hex(data) ==
    LET h == Sha1State(5381, data) IN
    << HexDigits[(h \div 4096) + 1], HexDigits[((h \div 256) % 16) + 1],
       HexDigits[((h \div 16) % 16) + 1], HexDigits[(h % 16) + 1] >>

-----------------------------------------------------------------------------
(* u64::to_string and u64::from_str: chunk files are named by the decimal   *)
(* digits of their index                                                    *)

Digits == << "0", "1", "2", "3", "4", "5", "6", "7", "8", "9" >>

RECURSIVE to_string(_)
to_string(n) ==
    IF n < 10 THEN << Digits[n + 1] >>
    ELSE Append(to_string(n \div 10), Digits[(n % 10) + 1])

IsDigit(c) == \E d \in 1..10 : Digits[d] = c
DigitValue(c) == (CHOOSE d \in 1..10 : Digits[d] = c) - 1

RECURSIVE from_str(_, _)
from_str(name, acc) ==
    IF name = <<>> THEN [ok |-> TRUE, value |-> acc]
    ELSE IF ~IsDigit(Head(name)) THEN [ok |-> FALSE, value |-> 0]
    ELSE from_str(Tail(name), acc * 10 + DigitValue(Head(name)))

\* fn parse_index(entry)
parse_index(name) ==
    IF name = <<>> THEN [ok |-> FALSE, value |-> 0] ELSE from_str(name, 0)

-----------------------------------------------------------------------------
(* Vec::sort and Vec::dedup *)

RECURSIVE Insert(_, _)
Insert(x, s) ==
    IF s = <<>> THEN << x >>
    ELSE IF x <= Head(s) THEN << x >> \o s
    ELSE << Head(s) >> \o Insert(x, Tail(s))

RECURSIVE Sort(_)
Sort(s) == IF s = <<>> THEN <<>> ELSE Insert(Head(s), Sort(Tail(s)))

\* removes consecutive repeated elements
RECURSIVE Dedup(_)
Dedup(s) ==
    IF Len(s) < 2 THEN s
    ELSE IF s[1] = s[2] THEN Dedup(Tail(s))
    ELSE << s[1] >> \o Dedup(Tail(s))

-----------------------------------------------------------------------------
(* The file system as the environment of one call.  `io` names the I/O     *)
(* error the call meets, if any, and the order in which the operating      *)
(* system lists a directory:                                                *)
(*   io.fail    "none", or the system call that fails                       *)
(*   io.at      for a failing copy: the position of the chunk it fails at   *)
(*   io.listing the enumeration order of fs::read_dir                       *)
(* Removing files and directories the agent created itself is taken to     *)
(* succeed, and a write is all or nothing.                                  *)

Io(fail, at, listing) == [fail |-> fail, at |-> at, listing |-> listing]
NoFault == Io("none", 0, "asc")

\* fs::create_dir_all
create_dir_all(dirs, dir) ==
    IF dir \in DOMAIN dirs THEN dirs ELSE Put(dirs, dir, EmptyMap)

\* fs::read_dir: the entry names, in the order the system lists them
RECURSIVE Listing(_, _)
Listing(names, listing) ==
    IF names = {} THEN <<>>
    ELSE LET pick == IF listing = "asc"
                THEN CHOOSE n \in names : \A m \in names :
                         parse_index(n).value <= parse_index(m).value
                ELSE CHOOSE n \in names : \A m \in names :
                         parse_index(n).value >= parse_index(m).value
         IN << pick >> \o Listing(names \ {pick}, listing)

read_dir(entries, listing) == Listing(DOMAIN entries, listing)

-----------------------------------------------------------------------------
(* persistence.rs: Transfer *)

\* Transfer::new
NewTransfer(prefix, package, checksum, time_now) ==
    [ package |-> package,
      checksum |-> checksum,
      transferred_chunks |-> <<>>,
      prefix_dir |-> prefix,
      last_chunk_received |-> time_now ]

\* the path get_chunk_dir builds
chunk_dir_path(self) == self.prefix_dir \o "/downloads/" \o Display(self.package)

\* the path get_package_path builds
get_package_path(self) ==
    self.prefix_dir \o "/packages/" \o Display(self.package) \o ".spkg"

\* Transfer::get_chunk_dir: builds the path and creates the directory
get_chunk_dir(self, dirs) == create_dir_all(dirs, chunk_dir_path(self))

\* write_new_file opening the file without truncate: the data goes behind what
\* the file holds
write_new_file_appending(entries, name, data, io) ==
    IF io.fail = "open" THEN [ok |-> FALSE, entries |-> entries]
    ELSE IF io.fail = "write" THEN [ok |-> FALSE, entries |-> Put(entries, name, <<>>)]
    ELSE [ok |-> TRUE,
          entries |-> Put(entries, name,
                          (IF name \in DOMAIN entries THEN entries[name] ELSE <<>>) \o data)]

\* fn write_new_file: create or truncate, then write
write_new_file(entries, name, data, io) ==
    IF io.fail = "open" THEN [ok |-> FALSE, entries |-> entries]
    ELSE IF io.fail = "write" THEN [ok |-> FALSE, entries |-> Put(entries, name, <<>>)]
    ELSE [ok |-> TRUE, entries |-> Put(entries, name, data)]

\* the index list after a successful write: push, sort, dedup
RecordChunk(chunks, index) == Dedup(Sort(Append(chunks, index)))

\* write_chunk recording the index whether or not the bytes reached disk
write_chunk_recording(self, msg, index, dirs, io, time_now) ==
    LET decoded == from_base64(msg)
        dir == chunk_dir_path(self)
        attempt ==
            IF ~decoded.ok \/ io.fail = "mkdir"
            THEN [success |-> FALSE, dirs |-> dirs]
            ELSE LET made == get_chunk_dir(self, dirs)
                     w == write_new_file(made[dir], to_string(index), decoded.bytes, io)
                 IN [success |-> w.ok, dirs |-> Put(made, dir, w.entries)]
    IN [ transfer |-> [self EXCEPT
                           !.transferred_chunks = RecordChunk(self.transferred_chunks, index),
                           !.last_chunk_received = time_now],
         dirs |-> attempt.dirs,
         success |-> attempt.success ]

\* write_chunk leaving no directory behind when the write fails
write_chunk_tidy(self, msg, index, dirs, io, time_now) ==
    LET decoded == from_base64(msg)
        dir == chunk_dir_path(self)
        attempt ==
            IF ~decoded.ok \/ io.fail = "mkdir"
            THEN [success |-> FALSE, chunks |-> self.transferred_chunks, dirs |-> dirs]
            ELSE LET made == get_chunk_dir(self, dirs)
                     w == write_new_file(made[dir], to_string(index), decoded.bytes, io)
                 IN [ success |-> w.ok,
                      chunks |-> IF w.ok THEN RecordChunk(self.transferred_chunks, index)
                                 ELSE self.transferred_chunks,
                      dirs |-> IF w.ok THEN Put(made, dir, w.entries) ELSE dirs ]
    IN [ transfer |-> [self EXCEPT !.transferred_chunks = attempt.chunks,
                                   !.last_chunk_received = time_now],
         dirs |-> attempt.dirs,
         success |-> attempt.success ]

\* write_chunk returning true whatever became of the write
write_chunk_unreported(self, msg, index, dirs, io, time_now) ==
    LET decoded == from_base64(msg)
        dir == chunk_dir_path(self)
        attempt ==
            IF ~decoded.ok \/ io.fail = "mkdir"
            THEN [chunks |-> self.transferred_chunks, dirs |-> dirs]
            ELSE LET made == get_chunk_dir(self, dirs)
                     w == write_new_file(made[dir], to_string(index), decoded.bytes, io)
                 IN [ chunks |-> IF w.ok THEN RecordChunk(self.transferred_chunks, index)
                                 ELSE self.transferred_chunks,
                      dirs |-> Put(made, dir, w.entries) ]
    IN [ transfer |-> [self EXCEPT !.transferred_chunks = attempt.chunks,
                                   !.last_chunk_received = time_now],
         dirs |-> attempt.dirs,
         success |-> TRUE ]

\* write_chunk noting the time of the chunks it has stored only
write_chunk_lapsing(self, msg, index, dirs, io, time_now) ==
    LET decoded == from_base64(msg)
        dir == chunk_dir_path(self)
        attempt ==
            IF ~decoded.ok \/ io.fail = "mkdir"
            THEN [success |-> FALSE, chunks |-> self.transferred_chunks, dirs |-> dirs]
            ELSE LET made == get_chunk_dir(self, dirs)
                     w == write_new_file(made[dir], to_string(index), decoded.bytes, io)
                 IN [ success |-> w.ok,
                      chunks |-> IF w.ok THEN RecordChunk(self.transferred_chunks, index)
                                 ELSE self.transferred_chunks,
                      dirs |-> Put(made, dir, w.entries) ]
    IN [ transfer |-> [self EXCEPT !.transferred_chunks = attempt.chunks,
                                   !.last_chunk_received =
                                       IF attempt.success THEN time_now ELSE @],
         dirs |-> attempt.dirs,
         success |-> attempt.success ]

\* Transfer::write_chunk
write_chunk(self, msg, index, dirs, io, time_now) ==
    LET decoded == from_base64(msg)
        dir == chunk_dir_path(self)
        attempt ==
            IF ~decoded.ok \/ io.fail = "mkdir"
            THEN [success |-> FALSE, chunks |-> self.transferred_chunks, dirs |-> dirs]
            ELSE LET made == get_chunk_dir(self, dirs)
                     w == write_new_file(made[dir], to_string(index), decoded.bytes, io)
                 IN [ success |-> w.ok,
                      chunks |-> IF w.ok THEN RecordChunk(self.transferred_chunks, index)
                                 ELSE self.transferred_chunks,
                      dirs |-> Put(made, dir, w.entries) ]
    IN [ transfer |-> [self EXCEPT !.transferred_chunks = attempt.chunks,
                                   !.last_chunk_received = time_now],
         dirs |-> attempt.dirs,
         success |-> attempt.success ]

\* Transfer::copy_chunk, for the chunks at positions 1..n of `indices`
RECURSIVE CopyChunks(_, _, _)
CopyChunks(entries, indices, n) ==
    IF n = 0 THEN <<>>
    ELSE CopyChunks(entries, indices, n - 1) \o entries[to_string(indices[n])]

\* SortedIndices without the sort: the indices in the order the system lists
\* the directory
ListedIndices(entries, listing) ==
    LET names == read_dir(entries, listing)
    IN [i \in 1..Len(names) |-> parse_index(names[i]).value]

\* the parsed, sorted indices of the chunk directory
SortedIndices(entries, listing) ==
    LET names == read_dir(entries, listing)
    IN Sort([i \in 1..Len(names) |-> parse_index(names[i]).value])

\* Transfer::assemble_chunks
assemble_chunks(self, dirs, files, io) ==
    LET package_path == get_package_path(self)
        dir == chunk_dir_path(self)
        truncated == Put(files, package_path, <<>>)
        made == get_chunk_dir(self, dirs)
    IN IF io.fail = "open" THEN [ok |-> FALSE, dirs |-> dirs, files |-> files]
       ELSE IF io.fail = "mkdir" THEN [ok |-> FALSE, dirs |-> dirs, files |-> truncated]
       ELSE IF io.fail = "read_dir" \/ \E n \in DOMAIN made[dir] : ~parse_index(n).ok
            THEN [ok |-> FALSE, dirs |-> made, files |-> truncated]
       ELSE LET indices == SortedIndices(made[dir], io.listing)
                failing == io.fail = "copy" /\ io.at <= Len(indices)
                copied == IF failing THEN io.at - 1 ELSE Len(indices)
            IN [ ok |-> ~failing,
                 dirs |-> made,
                 files |-> Put(files, package_path, CopyChunks(made[dir], indices, copied)) ]

\* checksum accepting whatever it can read
checksum_unchecked(self, files, io) ==
    get_package_path(self) \in DOMAIN files /\ io.fail # "checksum"

\* Transfer::checksum
checksum(self, files, io) ==
    LET path == get_package_path(self)
    IN IF path \notin DOMAIN files \/ io.fail = "checksum" THEN FALSE
       ELSE Sha1Hex(files[path]) = self.checksum

\* Transfer::assemble_package
assemble_package(self, dirs, files, io) ==
    LET a == assemble_chunks(self, dirs, files, io)
    IN [ result |-> a.ok /\ checksum(self, a.files, io),
         dirs |-> a.dirs,
         files |-> a.files ]

\* Drop removing the chunk files and leaving the directory
drop_files_only(self, dirs) ==
    Put(get_chunk_dir(self, dirs), chunk_dir_path(self), EmptyMap)

\* Drop doing nothing
drop_nothing(self, dirs) == dirs

\* impl Drop for Transfer: empties the chunk directory and removes it
Drop(self, dirs) ==
    LET dir == chunk_dir_path(self)
        made == get_chunk_dir(self, dirs)
        emptied == Put(made, dir, EmptyMap)
    IN Del(emptied, dir)

-----------------------------------------------------------------------------
(* message: BackendServices and Notification *)

BackendServices(start, ack, report, packages) ==
    [start |-> start, ack |-> ack, report |-> report, packages |-> packages]

\* BackendServices::new and the value ServiceHandler::new builds
EmptyServices == BackendServices("", "", "", "")

Notify(svcs, packages) == [kind |-> "Notify", services |-> svcs, packages |-> packages]
Initiate(packages) == [kind |-> "Initiate", packages |-> packages]
Finish(package) == [kind |-> "Finish", package |-> package]
Report == [kind |-> "Report"]

-----------------------------------------------------------------------------
(* jsonrpc: responses *)

OkResponse(id) == [id |-> Some(id), error |-> None]
ErrResponse(code, id) == [id |-> id, error |-> Some(code)]

parse_error == ErrResponse(-32700, None)
invalid_request(id) == ErrResponse(-32600, Some(id))
method_not_found(id) == ErrResponse(-32601, Some(id))
invalid_params(id) == ErrResponse(-32602, Some(id))
unspecified(id) == ErrResponse(-32100, Some(id))

-----------------------------------------------------------------------------
(* A request body, as far as the dispatcher looks at it:                    *)
(*   json     "malformed" (Json::from_str fails), "array" (a JSON value     *)
(*            that is no object) or "object"                                *)
(*   jsonrpc  the object has a "jsonrpc" string                             *)
(*   id       Some(n) when "id" is an unsigned integer                      *)
(*   method   Some(s) when "method" is a string                             *)
(*   params   Some(m) when "params" is an object, where                     *)
(*            m.service_name is Some(s) when "service_name" is a string     *)
(*            m.parameters is Some(list) when "parameters" is a list; each  *)
(*            element is a JSON object, modelled as a record                *)

Body(json, jsonrpc, id, method, params) ==
    [json |-> json, jsonrpc |-> jsonrpc, id |-> id, method |-> method, params |-> params]

Message(service_name, parameters) ==
    [service_name |-> service_name, parameters |-> parameters]

\* a well-formed `message` request carrying one payload
MessageBody(id, service, payload) ==
    Body("object", TRUE, Some(id), Some("message"),
         Some(Message(Some(service), Some(<< payload >>))))

\* the services main_loop::start registers, in the order of handle_params!
RegisteredServices ==
    << "/sota/notify", "/sota/start", "/sota/chunk",
       "/sota/finish", "/sota/getpackages", "/sota/abort" >>

\* the fields of the parameter type each service decodes
ParamFields(service) ==
    CASE service = "/sota/notify" -> {"services", "packages"}
      [] service = "/sota/start" -> {"package", "chunkscount", "checksum"}
      [] service = "/sota/chunk" -> {"package", "index", "msg"}
      [] service = "/sota/finish" -> {"package"}
      [] service = "/sota/getpackages" -> {}
      [] service = "/sota/abort" -> {"package"}

\* json::decode::<jsonrpc::Request<Message<D>>>: every field of the envelope
\* and of every element of `parameters` must be there
Decodes(service, body) ==
    /\ body.json = "object"
    /\ body.jsonrpc
    /\ IsSome(body.id)
    /\ IsSome(body.method)
    /\ IsSome(body.params)
    /\ IsSome(Unwrap(body.params).service_name)
    /\ IsSome(Unwrap(body.params).parameters)
    /\ \A i \in 1..Len(Unwrap(Unwrap(body.params).parameters)) :
           ParamFields(service) \subseteq DOMAIN Unwrap(Unwrap(body.params).parameters)[i]

-----------------------------------------------------------------------------
(* handler: the message handlers.  `st` is what a handler can read and      *)
(* write: the transfer table, the disk, the BackendServices and the clock.  *)
(* Each handler holds the lock of what it touches for the whole call.       *)

State(trs, dirs, files, svcs, time_now) ==
    [transfers |-> trs, dirs |-> dirs, files |-> files, services |-> svcs, now |-> time_now]

Outcome(result, st) ==
    [ result |-> result, transfers |-> st.transfers, dirs |-> st.dirs,
      files |-> st.files, services |-> st.services ]

\* NotifyParams::handle
handle_notify(p, st) ==
    Outcome(TRUE, [st EXCEPT !.services = p.services])

\* StartParams::handle: HashMap::insert hands back the replaced Transfer,
\* which is dropped
handle_start(p, st) ==
    LET transfer == NewTransfer(storage_dir, p.package, p.checksum, st.now)
        dirs == IF p.package \in DOMAIN st.transfers
                THEN Drop(st.transfers[p.package], st.dirs)
                ELSE st.dirs
    IN Outcome(TRUE, [st EXCEPT !.transfers = Put(st.transfers, p.package, transfer),
                                !.dirs = dirs])

\* ChunkParams::handle
handle_chunk(p, st, io) ==
    IF p.package \notin DOMAIN st.transfers THEN Outcome(FALSE, st)
    ELSE LET w == write_chunk(st.transfers[p.package], p.msg, p.index, st.dirs, io, st.now)
         IN Outcome(w.success,
                    [st EXCEPT !.transfers = Put(st.transfers, p.package, w.transfer),
                               !.dirs = w.dirs])

\* FinishParams::handle
handle_finish(p, st, io) ==
    IF p.package \notin DOMAIN st.transfers THEN Outcome(FALSE, st)
    ELSE LET transfer == st.transfers[p.package]
             a == assemble_package(transfer, st.dirs, st.files, io)
         IN IF a.result
            THEN Outcome(TRUE, [st EXCEPT !.transfers = Del(st.transfers, p.package),
                                          !.dirs = Drop(transfer, a.dirs),
                                          !.files = a.files])
            ELSE Outcome(FALSE, [st EXCEPT !.dirs = a.dirs, !.files = a.files])

\* ReportParams::handle
handle_report(p, st) == Outcome(TRUE, st)

\* AbortParams::handle
handle_abort(p, st) ==
    IF p.package \in DOMAIN st.transfers
    THEN Outcome(TRUE, [st EXCEPT !.transfers = Del(st.transfers, p.package),
                                  !.dirs = Drop(st.transfers[p.package], st.dirs)])
    ELSE Outcome(TRUE, st)

\* HandleMessageParams::handle of the parameter type of `service`
handle(service, p, st, io) ==
    CASE service = "/sota/notify" -> handle_notify(p, st)
      [] service = "/sota/start" -> handle_start(p, st)
      [] service = "/sota/chunk" -> handle_chunk(p, st, io)
      [] service = "/sota/finish" -> handle_finish(p, st, io)
      [] service = "/sota/getpackages" -> handle_report(p, st)
      [] service = "/sota/abort" -> handle_abort(p, st)

\* HandleMessageParams::get_message
get_message(service, p) ==
    CASE service = "/sota/notify" -> Some(Notify(p.services, p.packages))
      [] service = "/sota/finish" -> Some(Finish(p.package))
      [] service = "/sota/getpackages" -> Some(Report)
      [] OTHER -> None

-----------------------------------------------------------------------------
(* handler/service.rs: the dispatcher *)

\* what a call of handle_message has come to when the handler has returned:
\*   panic    the request task has panicked
\*   resp     Some(response) when the response is settled
\*   message  Some(notification) when push_notify and the OK response are
\*            still to come
Verdict(panic, resp, message, out) ==
    [ panic |-> panic, resp |-> resp, message |-> message,
      transfers |-> out.transfers, dirs |-> out.dirs,
      files |-> out.files, services |-> out.services ]

\* handle_message_params notifying and answering OK whatever the handler
\* returned
handle_message_params_heedless(service, body, st, io) ==
    LET rpc_id == Unwrap(body.id)
        parameters == Unwrap(Unwrap(body.params).parameters)
    IN IF ~Decodes(service, body)
       THEN Verdict(FALSE, Some(invalid_params(rpc_id)), None, st)
       ELSE IF Len(parameters) = 0
       THEN Verdict(TRUE, None, None, st)
       ELSE LET handler == parameters[1]
                out == handle(service, handler, st, io)
                m == get_message(service, handler)
            IN IF IsSome(m) THEN Verdict(FALSE, None, m, out)
               ELSE Verdict(FALSE, Some(OkResponse(rpc_id)), None, out)

\* ServiceHandler::handle_message_params, up to the return of the handler
handle_message_params(service, body, st, io) ==
    LET rpc_id == Unwrap(body.id)
        parameters == Unwrap(Unwrap(body.params).parameters)
    IN IF ~Decodes(service, body)
       THEN Verdict(FALSE, Some(invalid_params(rpc_id)), None, st)
       ELSE IF Len(parameters) = 0
       THEN Verdict(TRUE, None, None, st)
       ELSE LET handler == parameters[1]
                out == handle(service, handler, st, io)
                m == get_message(service, handler)
            IN IF ~out.result THEN Verdict(FALSE, Some(unspecified(rpc_id)), None, out)
               ELSE IF IsSome(m) THEN Verdict(FALSE, None, m, out)
               ELSE Verdict(FALSE, Some(OkResponse(rpc_id)), None, out)

\* handle_message trying the registered handlers before it looks at the method
handle_message_unrouted(body, st, io) ==
    IF body.json # "object" THEN Verdict(FALSE, Some(parse_error), None, st)
    ELSE IF ~IsSome(body.id) THEN Verdict(FALSE, Some(parse_error), None, st)
    ELSE LET rpc_id == Unwrap(body.id) IN
         IF ~IsSome(body.method) THEN Verdict(FALSE, Some(invalid_request(rpc_id)), None, st)
         ELSE IF ~IsSome(body.params) \/ ~IsSome(Unwrap(body.params).service_name)
         THEN Verdict(FALSE, Some(invalid_request(rpc_id)), None, st)
         ELSE LET service == Unwrap(Unwrap(body.params).service_name) IN
              IF \E i \in 1..Len(RegisteredServices) : RegisteredServices[i] = service
              THEN handle_message_params(service, body, st, io)
              ELSE IF Unwrap(body.method) = "services_available"
              THEN Verdict(FALSE, Some(OkResponse(rpc_id)), None, st)
              ELSE Verdict(FALSE, Some(method_not_found(rpc_id)), None, st)

\* ServiceHandler::handle_message
handle_message(body, st, io) ==
    IF body.json # "object" THEN Verdict(FALSE, Some(parse_error), None, st)
    ELSE IF ~IsSome(body.id) THEN Verdict(FALSE, Some(parse_error), None, st)
    ELSE LET rpc_id == Unwrap(body.id) IN
         IF ~IsSome(body.method) THEN Verdict(FALSE, Some(invalid_request(rpc_id)), None, st)
         ELSE IF Unwrap(body.method) = "services_available"
         THEN Verdict(FALSE, Some(OkResponse(rpc_id)), None, st)
         ELSE IF Unwrap(body.method) # "message"
         THEN Verdict(FALSE, Some(method_not_found(rpc_id)), None, st)
         ELSE IF ~IsSome(body.params) \/ ~IsSome(Unwrap(body.params).service_name)
         THEN Verdict(FALSE, Some(invalid_request(rpc_id)), None, st)
         ELSE LET service == Unwrap(Unwrap(body.params).service_name) IN
              IF \E i \in 1..Len(RegisteredServices) : RegisteredServices[i] = service
              THEN handle_message_params(service, body, st, io)
              ELSE Verdict(FALSE, Some(invalid_request(rpc_id)), None, st)

-----------------------------------------------------------------------------
(* The requests the backend sends *)

\* base64 payloads: "te", "st\n", an invalid byte, an invalid length
MsgTe == << "d", "G", "U", "=" >>
MsgSt == << "c", "3", "Q", "K" >>
MsgBadByte == << "d", "!" >>
MsgBadLength == << "d" >>

\* the bytes "test\n"
TestData == << 116, 101, 115, 116, 10 >>

\* checksums: the digest of "test\n", the digest of "te", and no digest
ChecksumTest == Sha1Hex(TestData)
ChecksumTe == Sha1Hex(<< 116, 101 >>)
ChecksumInvalid == << "i", "n", "v", "a", "l", "i", "d" >>

\* indices whose decimal names sort the other way round as text
ChunkIndices == 9..(9 + MaxIndex)

\* the PackageId of the run
OnePackage == {PackageId("a", "1")}

ServicesA == BackendServices("a/start", "a/ack", "a/report", "a/packages")
ServicesB == BackendServices("b/start", "b/ack", "b/report", "b/packages")

NotifyPayloads(pids, svcs) ==
    {[services |-> s, packages |-> pids] : s \in svcs}
StartPayloads(pids, sums) ==
    {[package |-> p, chunkscount |-> MaxIndex + 1, checksum |-> c] : p \in pids, c \in sums}
ChunkPayloads(pids, indices, msgs) ==
    {[package |-> p, index |-> i, msg |-> m] : p \in pids, i \in indices, m \in msgs}
PackagePayloads(pids) == {[package |-> p] : p \in pids}
EmptyPayload == [x \in {} |-> 0]

\* the well-formed requests for a given choice of ids, checksums and payloads
HandlerBodies(pids, ids, svcs, sums, indices, msgs) ==
    UNION { {MessageBody(id, "/sota/notify", p) : p \in NotifyPayloads(pids, svcs)}
            \cup {MessageBody(id, "/sota/start", p) : p \in StartPayloads(pids, sums)}
            \cup {MessageBody(id, "/sota/chunk", p) : p \in ChunkPayloads(pids, indices, msgs)}
            \cup {MessageBody(id, "/sota/finish", p) : p \in PackagePayloads(pids)}
            \cup {MessageBody(id, "/sota/abort", p) : p \in PackagePayloads(pids)}
            \cup {MessageBody(id, "/sota/getpackages", EmptyPayload)}
          : id \in ids }

\* requests that are not well formed, or that no handler takes
OddBodies(pids, ids) ==
    { Body("malformed", FALSE, None, None, None),
      Body("array", FALSE, None, None, None),
      Body("object", TRUE, None, Some("message"),
           Some(Message(Some("/sota/getpackages"), Some(<< EmptyPayload >>)))) }
    \cup UNION {
        { Body("object", TRUE, Some(id), None, None),
          Body("object", TRUE, Some(id), Some("services_available"), None),
          Body("object", TRUE, Some(id), Some("unknown"), None),
          Body("object", TRUE, Some(id), Some("message"), None),
          Body("object", TRUE, Some(id), Some("message"), Some(Message(None, None))),
          Body("object", TRUE, Some(id), Some("message"),
               Some(Message(Some("/sota/unknown"), Some(<< EmptyPayload >>)))),
          Body("object", TRUE, Some(id), Some("message"),
               Some(Message(Some("/sota/finish"), Some(<<>>)))),
          Body("object", TRUE, Some(id), Some("message"),
               Some(Message(Some("/sota/finish"), None))),
          Body("object", FALSE, Some(id), Some("message"),
               Some(Message(Some("/sota/getpackages"), Some(<< EmptyPayload >>)))) }
        \cup {MessageBody(id, "/sota/start", p) : p \in PackagePayloads(pids)}
        \cup {MessageBody(id, "/sota/chunk", EmptyPayload)}
      : id \in ids }

RequestIds == {1, 2}

\* the requests of the dispatcher model
RpcBodies(pids) ==
    HandlerBodies(pids, {1}, {ServicesA}, {ChecksumTe, ChecksumInvalid}, {9},
                  {MsgTe, MsgBadByte})
    \cup OddBodies(pids, RequestIds)

\* the requests of the agent model
AgentBodies(pids) ==
    {MessageBody(1, "/sota/start", p) : p \in StartPayloads(pids, {ChecksumTe})}
    \cup {MessageBody(1, "/sota/chunk", p) : p \in ChunkPayloads(pids, {9}, {MsgTe, MsgBadByte})}
    \cup {MessageBody(1, "/sota/finish", p) : p \in PackagePayloads(pids)}

\* two packages, and two whose names and versions run into the same text
TwoPackages == {PackageId("a", "1"), PackageId("b", "1")}
ClashingPackages == {PackageId("a-b", "c"), PackageId("a", "b-c")}

\* the requests of the table model: every request that touches a Transfer
TableBodies(pids) ==
    {MessageBody(1, "/sota/start", p) : p \in StartPayloads(pids, {ChecksumTe})}
    \cup {MessageBody(1, "/sota/chunk", p) : p \in ChunkPayloads(pids, {9}, {MsgTe})}
    \cup {MessageBody(1, "/sota/finish", p) : p \in PackagePayloads(pids)}
    \cup {MessageBody(1, "/sota/abort", p) : p \in PackagePayloads(pids)}

IsService(body, service) ==
    /\ body.json = "object"
    /\ IsSome(body.id)
    /\ body.method = Some("message")
    /\ IsSome(body.params)
    /\ Unwrap(body.params).service_name = Some(service)
    /\ Decodes(service, body)
    /\ Unwrap(Unwrap(body.params).parameters) # <<>>

\* the I/O errors write_chunk can meet
WriteFaults == {NoFault, Io("mkdir", 0, "asc"), Io("open", 0, "asc"), Io("write", 0, "asc")}

\* the I/O errors and directory listings assemble_package can meet
AssembleFaults ==
    {NoFault, Io("none", 0, "desc"), Io("open", 0, "asc"), Io("mkdir", 0, "asc"),
     Io("read_dir", 0, "asc"), Io("checksum", 0, "desc")}
    \cup {Io("copy", k, "asc") : k \in 1..(MaxIndex + 1)}

\* the I/O environments a request can meet; only chunk and finish touch files
IoEnvs(body) ==
    IF IsService(body, "/sota/chunk") THEN {NoFault, Io("write", 0, "asc")}
    ELSE IF IsService(body, "/sota/finish")
    THEN {NoFault, Io("copy", 1, "asc"), Io("checksum", 0, "asc")}
    ELSE {NoFault}

-----------------------------------------------------------------------------
(* The initial state: main_loop::start has built the table, the channel,    *)
(* the handler and the threads; nothing has run yet                         *)

Tasks == 1..NumTasks

\* a request task: where it stands, the id and the service of its request,
\* whether the handler found a Transfer of the request's package in the table,
\* the notification it still has to push, and the response it has produced
Task(pc, id, service, found, message, resp) ==
    [pc |-> pc, id |-> id, service |-> service, found |-> found,
     message |-> message, resp |-> resp]

IdleTask == Task("idle", None, None, FALSE, None, None)

\* a call of a method of the Transfer under test: the method, its arguments
\* (write_chunk only), the I/O error it met and what it returned
Call(op, msg, index, fault, result) ==
    [op |-> op, msg |-> msg, index |-> index, fault |-> fault, result |-> result]

NoCall == Call("none", <<>>, 0, "none", FALSE)

\* the coordinator: where it stands in the loop, the notification in hand and
\* the URL its outbound RPC goes to
Coordinator(pc, msg, url) == [pc |-> pc, msg |-> msg, url |-> url]

\* main_loop::start spawning the sweeper whether or not a timeout is configured
BootSweeping(limits, pids) ==
    /\ now = 0
    /\ timeout \in limits
    /\ package_ids \in pids
    /\ transfers = EmptyMap
    /\ chunk_dirs = EmptyMap
    /\ package_files = EmptyMap
    /\ services = EmptyServices
    /\ channel = <<>>
    /\ tasks = [t \in Tasks |-> IdleTask]
    /\ sweeper = [ pc |-> "spawned", started |-> 0, since |-> 0, time_now |-> 0,
                   timed_out |-> {}, dropped |-> {} ]
    /\ coordinator = Coordinator("recv", None, None)
    /\ backend_services = EmptyServices
    /\ call = NoCall

\* main_loop::start, for a configuration and the packages of the run
Boot(limits, pids) ==
    /\ now = 0
    /\ timeout \in limits
    /\ package_ids \in pids
    /\ transfers = EmptyMap
    /\ chunk_dirs = EmptyMap
    /\ package_files = EmptyMap
    /\ services = EmptyServices
    /\ channel = <<>>
    /\ tasks = [t \in Tasks |-> IdleTask]
    /\ sweeper = [ pc |-> IF IsSome(timeout) THEN "spawned" ELSE "off",
                   started |-> 0, since |-> 0, time_now |-> 0, timed_out |-> {},
                   dropped |-> {} ]
    /\ coordinator = Coordinator("recv", None, None)
    /\ backend_services = EmptyServices
    /\ call = NoCall

Init == Boot({None, Some(TimeoutSecs)}, {OnePackage})

\* the request tasks of the models of the server pool: one more than Tasks, so
\* that two requests are in hand at once
Racers == 1..(NumTasks + 1)

\* main_loop::start with the server pool ready, for a timeout or none
BootRace(limit) ==
    /\ now = 0
    /\ timeout = limit
    /\ package_ids = OnePackage
    /\ transfers = EmptyMap
    /\ chunk_dirs = EmptyMap
    /\ package_files = EmptyMap
    /\ services = EmptyServices
    /\ channel = <<>>
    /\ tasks = [t \in Racers |-> IdleTask]
    /\ sweeper = [ pc |-> IF IsSome(limit) THEN "spawned" ELSE "off",
                   started |-> 0, since |-> 0, time_now |-> 0, timed_out |-> {},
                   dropped |-> {} ]
    /\ coordinator = Coordinator("recv", None, None)
    /\ backend_services = EmptyServices
    /\ call = NoCall

InitRace == BootRace(None)

-----------------------------------------------------------------------------
(* A request task of the RPC server: impl Handler for ServiceHandler *)

\* notifications sent or about to be sent and not yet received
Pending == Len(channel) + Cardinality({t \in DOMAIN tasks : tasks[t].pc = "handled"})

\* the service whose handler the dispatcher runs for `body`, if it runs one
Dispatched(body) ==
    IF \E i \in 1..Len(RegisteredServices) : IsService(body, RegisteredServices[i])
    THEN Unwrap(body.params).service_name
    ELSE None

\* the handler looks up the package of its payload and finds a Transfer
Found(body, trs) ==
    /\ IsSome(Dispatched(body))
    /\ "package" \in DOMAIN Unwrap(Unwrap(body.params).parameters)[1]
    /\ Unwrap(Unwrap(body.params).parameters)[1].package \in DOMAIN trs

\* handle, from reading the body to the return of the message handler (or to
\* the response, when no handler runs or the handler has nothing to notify)
Serve(t, body, io) ==
    /\ tasks[t].pc \in {"idle", "replied", "panicked"}
    /\ \E v \in {handle_message(body, State(transfers, chunk_dirs, package_files,
                                            services, now), io)} :
          /\ transfers' = v.transfers
          /\ chunk_dirs' = v.dirs
          /\ package_files' = v.files
          /\ services' = v.services
          /\ tasks' = [tasks EXCEPT ![t] =
                 IF v.panic
                 THEN Task("panicked", body.id, None, FALSE, None, None)
                 ELSE IF IsSome(v.message)
                 THEN Task("handled", body.id, Dispatched(body), Found(body, transfers),
                           v.message, None)
                 ELSE Task("replied", body.id, Dispatched(body), Found(body, transfers),
                           None, v.resp)]
    /\ UNCHANGED <<now, timeout, package_ids, channel, sweeper, coordinator,
                   backend_services, call>>

\* handle, while the channel has room for what the handler may send
Handle(t, body, io) ==
    /\ Pending < MaxChannel
    /\ Serve(t, body, io)

\* a request of the agent model arrives
Request(t) ==
    /\ tasks[t].pc \in {"idle", "replied", "panicked"}
    /\ Pending < MaxChannel
    /\ \E body \in AgentBodies(package_ids) : \E io \in IoEnvs(body) : Handle(t, body, io)

\* a request of the dispatcher model arrives
RpcRequest(t) ==
    /\ tasks[t].pc \in {"idle", "replied", "panicked"}
    /\ Pending < MaxChannel
    /\ \E body \in RpcBodies(package_ids) : \E io \in IoEnvs(body) : Handle(t, body, io)

\* the package of a run with one package
Subject == CHOOSE p \in package_ids : TRUE

\* the sequence Notify, Start, Chunk, Finish for one package, with ids 1 to 4
Script(p) ==
    << MessageBody(1, "/sota/notify", [services |-> ServicesA, packages |-> {p}]),
       MessageBody(2, "/sota/start",
                   [package |-> p, chunkscount |-> 1, checksum |-> ChecksumTe]),
       MessageBody(3, "/sota/chunk", [package |-> p, index |-> 9, msg |-> MsgTe]),
       MessageBody(4, "/sota/finish", [package |-> p]) >>

\* how many requests of the sequence have been delivered
Delivered(t) == IF IsSome(tasks[t].id) THEN Unwrap(tasks[t].id) ELSE 0

\* the next request of the sequence arrives, once the one before is answered
SeqRequest(t) ==
    /\ Delivered(t) < Len(Script(Subject))
    /\ Serve(t, Script(Subject)[Delivered(t) + 1], NoFault)

\* the requests of the coordinator model: those that notify, and those a
\* finish needs
CoordBodies(pids) ==
    {MessageBody(1, "/sota/notify", p) : p \in NotifyPayloads(pids, {ServicesA, ServicesB})}
    \cup {MessageBody(1, "/sota/start", p) : p \in StartPayloads(pids, {ChecksumTe})}
    \cup {MessageBody(1, "/sota/chunk", p) : p \in ChunkPayloads(pids, {9}, {MsgTe})}
    \cup {MessageBody(1, "/sota/finish", p) : p \in PackagePayloads(pids)}
    \cup {MessageBody(1, "/sota/getpackages", EmptyPayload)}

\* a request of the coordinator model arrives
CoordRequest(t) ==
    /\ tasks[t].pc \in {"idle", "replied", "panicked"}
    /\ Pending < MaxChannel
    /\ \E body \in CoordBodies(package_ids) : \E io \in IoEnvs(body) : Handle(t, body, io)

\* a request of the table model arrives
TableRequest(t) ==
    /\ tasks[t].pc \in {"idle", "replied", "panicked"}
    /\ Pending < MaxChannel
    /\ \E body \in TableBodies(package_ids) : Handle(t, body, NoFault)

\* a request that touches a Transfer arrives, on a disk that may fail
LifeRequest(t) ==
    /\ tasks[t].pc \in {"idle", "replied", "panicked"}
    /\ Pending < MaxChannel
    /\ \E body \in TableBodies(package_ids) : \E io \in IoEnvs(body) : Handle(t, body, io)

\* the requests of the model of the server pool
RaceBodies(pids) ==
    {MessageBody(1, "/sota/notify", p) : p \in NotifyPayloads(pids, {ServicesA, ServicesB})}
    \cup {MessageBody(1, "/sota/start", p) : p \in StartPayloads(pids, {ChecksumTe})}
    \cup {MessageBody(1, "/sota/chunk", p) : p \in ChunkPayloads(pids, {9}, {MsgTe})}
    \cup {MessageBody(1, "/sota/finish", p) : p \in PackagePayloads(pids)}

\* a request arrives at a task of the pool, while others are in hand
RaceRequest(t) ==
    /\ tasks[t].pc \in {"idle", "replied", "panicked"}
    /\ Pending <= MaxChannel
    /\ \E body \in RaceBodies(package_ids) : Serve(t, body, NoFault)

\* push_notify putting the notification in front of those that wait
push_notify_front(t) ==
    /\ tasks[t].pc = "handled"
    /\ channel' = << Unwrap(tasks[t].message) >> \o channel
    /\ tasks' = [tasks EXCEPT ![t] = [@ EXCEPT !.pc = "pushed", !.message = None]]
    /\ UNCHANGED <<now, timeout, package_ids, transfers, chunk_dirs, package_files,
                   services, sweeper, coordinator, backend_services, call>>

\* ServiceHandler::push_notify
push_notify(t) ==
    /\ tasks[t].pc = "handled"
    /\ channel' = Append(channel, Unwrap(tasks[t].message))
    /\ tasks' = [tasks EXCEPT ![t] = [@ EXCEPT !.pc = "pushed", !.message = None]]
    /\ UNCHANGED <<now, timeout, package_ids, transfers, chunk_dirs, package_files,
                   services, sweeper, coordinator, backend_services, call>>

\* Ok(OkResponse::new(p.id, None)) and send_response!
Reply(t) ==
    /\ tasks[t].pc = "pushed"
    /\ tasks' = [tasks EXCEPT ![t] =
           [@ EXCEPT !.pc = "replied", !.resp = Some(OkResponse(Unwrap(tasks[t].id)))]]
    /\ UNCHANGED <<now, timeout, package_ids, transfers, chunk_dirs, package_files,
                   services, channel, sweeper, coordinator, backend_services, call>>

-----------------------------------------------------------------------------
(* The clock, and the sweeper thread: ServiceHandler::start_timer *)

\* Once started, the sweeper is scheduled in time: from the start of a sleep
\* to the end of the sweep that follows it the clock advances by 2 at most.
SweeperInTime == sweeper.pc \in {"sleep", "woken"} => now < sweeper.since + 2

Tick ==
    /\ now < MaxTime
    /\ SweeperInTime
    /\ now' = now + 1
    /\ UNCHANGED <<timeout, package_ids, transfers, chunk_dirs, package_files, services,
                   channel, tasks, sweeper, coordinator, backend_services, call>>

\* the clock advances, wherever the sweeper stands: neither the sleep nor the
\* wait for the lock of the table is bounded
ClockTick ==
    /\ now < MaxTime
    /\ now' = now + 1
    /\ UNCHANGED <<timeout, package_ids, transfers, chunk_dirs, package_files, services,
                   channel, tasks, sweeper, coordinator, backend_services, call>>

\* the clock advances next to a backend that lets no Transfer go without a
\* chunk request for more than `timeout` seconds
PunctualTick ==
    /\ \A p \in DOMAIN transfers :
           now + 1 - transfers[p].last_chunk_received <= Unwrap(timeout)
    /\ Tick

\* the spawned thread enters start_timer and goes to sleep
SweeperStart ==
    /\ sweeper.pc = "spawned"
    /\ sweeper' = [sweeper EXCEPT !.pc = "sleep", !.started = now, !.since = now]
    /\ UNCHANGED <<now, timeout, package_ids, transfers, chunk_dirs, package_files,
                   services, channel, tasks, coordinator, backend_services, call>>

\* sleep_ms(1000) returns and the clock is read
SweeperWake ==
    /\ sweeper.pc = "sleep"
    /\ now >= sweeper.since + 1
    /\ sweeper' = [sweeper EXCEPT !.pc = "woken", !.time_now = now, !.timed_out = {},
                                  !.dropped = {}]
    /\ UNCHANGED <<now, timeout, package_ids, transfers, chunk_dirs, package_files,
                   services, channel, tasks, coordinator, backend_services, call>>

\* TimedOut taking a Transfer whose age has reached the limit for timed out
timed_out_at_limit(trs, time_now, limit) ==
    {p \in DOMAIN trs : time_now - trs[p].last_chunk_received >= limit}

\* TimedOut with the operands of the subtraction exchanged
timed_out_swapped(trs, time_now, limit) ==
    {p \in DOMAIN trs : trs[p].last_chunk_received - time_now > limit}

\* the transfers the sweep finds timed out
TimedOut(trs, time_now, limit) ==
    {p \in DOMAIN trs : time_now - trs[p].last_chunk_received > limit}

\* dropping the transfers of `ps`, one after the other
RECURSIVE DropAll(_, _, _)
DropAll(trs, ps, dirs) ==
    IF ps = {} THEN dirs
    ELSE LET p == CHOOSE q \in ps : TRUE
         IN DropAll(trs, ps \ {p}, Drop(trs[p], dirs))

\* the table is locked, swept and unlocked; the thread sleeps again
SweeperSweep ==
    /\ sweeper.pc = "woken"
    /\ \E timed_out \in {TimedOut(transfers, sweeper.time_now, Unwrap(timeout))} :
          /\ transfers' = [p \in (DOMAIN transfers) \ timed_out |-> transfers[p]]
          /\ chunk_dirs' = DropAll(transfers, timed_out, chunk_dirs)
          /\ sweeper' = [sweeper EXCEPT !.pc = "sleep", !.since = now, !.time_now = 0,
                                        !.timed_out = timed_out,
                                        !.dropped = {transfers[p] : p \in timed_out}]
    /\ UNCHANGED <<now, timeout, package_ids, package_files, services, channel, tasks,
                   coordinator, backend_services, call>>

-----------------------------------------------------------------------------
(* The coordinator loop of main_loop::start *)

\* CoordRecv keeping the services it has when a Notify comes
CoordRecvStale ==
    /\ coordinator.pc = "recv"
    /\ channel # <<>>
    /\ channel' = Tail(channel)
    /\ \E m \in {Head(channel)} :
          CASE m.kind = "Notify" ->
                 coordinator' = Coordinator("recv", None, None)
            [] m.kind = "Initiate" ->
                 coordinator' = Coordinator("send", Some(m), Some(backend_services.start))
            [] m.kind = "Finish" ->
                 coordinator' = Coordinator("install", Some(m), None)
            [] m.kind = "Report" ->
                 coordinator' = Coordinator("report", Some(m), None)
    /\ UNCHANGED <<now, timeout, package_ids, transfers, chunk_dirs, package_files,
                   services, tasks, sweeper, backend_services, call>>

\* rx_main.recv() and the head of the match arm
CoordRecv ==
    /\ coordinator.pc = "recv"
    /\ channel # <<>>
    /\ channel' = Tail(channel)
    /\ \E m \in {Head(channel)} :
          CASE m.kind = "Notify" ->
                 /\ backend_services' = m.services
                 /\ coordinator' = Coordinator("recv", None, None)
            [] m.kind = "Initiate" ->
                 /\ coordinator' = Coordinator("send", Some(m), Some(backend_services.start))
                 /\ UNCHANGED backend_services
            [] m.kind = "Finish" ->
                 /\ coordinator' = Coordinator("install", Some(m), None)
                 /\ UNCHANGED backend_services
            [] m.kind = "Report" ->
                 /\ coordinator' = Coordinator("report", Some(m), None)
                 /\ UNCHANGED backend_services
    /\ UNCHANGED <<now, timeout, package_ids, transfers, chunk_dirs, package_files,
                   services, tasks, sweeper, call>>

\* CoordInstall going back to the channel without reporting to the backend
CoordInstallNoReport ==
    /\ coordinator.pc = "install"
    /\ coordinator' = Coordinator("recv", None, None)
    /\ UNCHANGED <<now, timeout, package_ids, transfers, chunk_dirs, package_files,
                   services, channel, tasks, sweeper, backend_services, call>>

\* sota_dbus::request_install returns
CoordInstall ==
    /\ coordinator.pc = "install"
    /\ coordinator' = [coordinator EXCEPT !.pc = "send",
                                          !.url = Some(backend_services.report)]
    /\ UNCHANGED <<now, timeout, package_ids, transfers, chunk_dirs, package_files,
                   services, channel, tasks, sweeper, backend_services, call>>

\* sota_dbus::request_report returns
CoordReport ==
    /\ coordinator.pc = "report"
    /\ coordinator' = [coordinator EXCEPT !.pc = "send",
                                          !.url = Some(backend_services.packages)]
    /\ UNCHANGED <<now, timeout, package_ids, transfers, chunk_dirs, package_files,
                   services, channel, tasks, sweeper, backend_services, call>>

\* rvi::send_message returns: Ok(..) => {} or Err(e)
CoordSend ==
    /\ coordinator.pc = "send"
    /\ \E rpc \in {"Ok", "Err"} :
          coordinator' = IF rpc = "Ok" THEN Coordinator("recv", None, None)
                         ELSE [coordinator EXCEPT !.pc = "failed"]
    /\ UNCHANGED <<now, timeout, package_ids, transfers, chunk_dirs, package_files,
                   services, channel, tasks, sweeper, backend_services, call>>

\* CoordFailed with the error unwinding through the loop
CoordFailedDies ==
    /\ coordinator.pc = "failed"
    /\ coordinator' = Coordinator("dead", None, None)
    /\ UNCHANGED <<now, timeout, package_ids, transfers, chunk_dirs, package_files,
                   services, channel, tasks, sweeper, backend_services, call>>

\* Err(e) => error!(..): the error is logged and the loop goes on
CoordFailed ==
    /\ coordinator.pc = "failed"
    /\ coordinator' = Coordinator("recv", None, None)
    /\ UNCHANGED <<now, timeout, package_ids, transfers, chunk_dirs, package_files,
                   services, channel, tasks, sweeper, backend_services, call>>

\* the receiver of sota_dbus sends an Initiate for packages the user picked
DbusInitiate ==
    /\ Len(SelectSeq(channel, LAMBDA m : m.kind = "Initiate")) < MaxChannel
    /\ channel' = Append(channel, Initiate(package_ids))
    /\ UNCHANGED <<now, timeout, package_ids, transfers, chunk_dirs, package_files,
                   services, tasks, sweeper, coordinator, backend_services, call>>

-----------------------------------------------------------------------------
(* A Transfer driven method by method, as the tests of persistence.rs do *)

\* the fixture: a Transfer for a package and a checksum
InitTransfer ==
    /\ now = 0
    /\ timeout = None
    /\ package_ids = OnePackage
    /\ \E c \in {ChecksumTest, ChecksumTe, ChecksumInvalid} :
           transfers = Put(EmptyMap, PackageId("a", "1"),
                           NewTransfer(storage_dir, PackageId("a", "1"), c, 0))
    /\ chunk_dirs = EmptyMap
    /\ package_files = EmptyMap
    /\ services = EmptyServices
    /\ channel = <<>>
    /\ tasks = [t \in Tasks |-> IdleTask]
    /\ sweeper = [ pc |-> "off", started |-> 0, since |-> 0, time_now |-> 0,
                   timed_out |-> {}, dropped |-> {} ]
    /\ coordinator = Coordinator("recv", None, None)
    /\ backend_services = EmptyServices
    /\ call = NoCall

\* transfer.write_chunk(msg, index)
WriteChunk ==
    \E msg \in {MsgTe, MsgSt, MsgBadByte, MsgBadLength}, index \in ChunkIndices,
       io \in WriteFaults :
        \E w \in {write_chunk(transfers[Subject], msg, index, chunk_dirs, io, now)} :
           /\ transfers' = Put(transfers, Subject, w.transfer)
           /\ chunk_dirs' = w.dirs
           /\ call' = Call("write_chunk", msg, index, io.fail, w.success)
           /\ UNCHANGED <<now, timeout, package_ids, package_files, services, channel,
                          tasks, sweeper, coordinator, backend_services>>

\* transfer.assemble_chunks()
AssembleChunks ==
    \E io \in AssembleFaults :
        \E a \in {assemble_chunks(transfers[Subject], chunk_dirs, package_files, io)} :
           /\ chunk_dirs' = a.dirs
           /\ package_files' = a.files
           /\ call' = Call("assemble_chunks", <<>>, 0, io.fail, a.ok)
           /\ UNCHANGED <<now, timeout, package_ids, transfers, services, channel,
                          tasks, sweeper, coordinator, backend_services>>

\* transfer.assemble_package()
AssemblePackage ==
    \E io \in AssembleFaults :
        \E a \in {assemble_package(transfers[Subject], chunk_dirs, package_files, io)} :
           /\ chunk_dirs' = a.dirs
           /\ package_files' = a.files
           /\ call' = Call("assemble_package", <<>>, 0, io.fail, a.result)
           /\ UNCHANGED <<now, timeout, package_ids, transfers, services, channel,
                          tasks, sweeper, coordinator, backend_services>>

-----------------------------------------------------------------------------
(* The threads mutex by mutex.  A request task stands at                    *)
(*   "waiting"   in lock() of the mutex its handler takes first             *)
(*   "holding"   in the handler, with that mutex, its work done             *)
(*   "acking"    in the chunk handler, with the table mutex, in lock() of   *)
(*               the services mutex for the URL of the acknowledgement      *)
(*   "snapshot"  in the chunk handler, with both mutexes                    *)
(*   "handled"   after the handler, in lock() of the sender mutex           *)
(*   "sending"   in push_notify, with the sender mutex                      *)
(* The handlers take the table mutex for their work and the services mutex  *)
(* for a copy of the fields; the chunk handler is taken to read the URL     *)
(* with the table still locked, the order that makes a task wait longest.   *)

\* the mutex the handler of `service` takes first
FirstMutex(service) ==
    IF service = Some("/sota/notify") THEN "services" ELSE "transfers"

\* the tasks that have the mutex `m`
Holders(m) ==
    {t \in DOMAIN tasks :
        CASE m = "transfers" ->
               \/ tasks[t].pc = "holding" /\ FirstMutex(tasks[t].service) = "transfers"
               \/ tasks[t].pc \in {"acking", "snapshot"}
          [] m = "services" ->
               \/ tasks[t].pc = "holding" /\ FirstMutex(tasks[t].service) = "services"
               \/ tasks[t].pc = "snapshot"
          [] m = "sender" -> tasks[t].pc = "sending"}

\* the mutex task `t` is waiting for, if it waits
Awaited(t) ==
    CASE tasks[t].pc = "waiting" -> Some(FirstMutex(tasks[t].service))
      [] tasks[t].pc = "acking" -> Some("services")
      [] tasks[t].pc = "handled" -> Some("sender")
      [] OTHER -> None

\* requests and notifications in hand
InHand ==
    Len(channel) + Cardinality({t \in DOMAIN tasks : tasks[t].pc \notin {"idle", "replied"}})

\* the requests of the model of the mutexes: one per mutex and way through it
LockBodies(pids) ==
    {MessageBody(1, "/sota/notify", p) : p \in NotifyPayloads(pids, {ServicesA})}
    \cup {MessageBody(1, "/sota/start", p) : p \in StartPayloads(pids, {ChecksumTe})}
    \cup {MessageBody(1, "/sota/chunk", p) : p \in ChunkPayloads(pids, {9}, {MsgTe})}

\* a request arrives and its handler calls lock()
Arrive(t) ==
    /\ tasks[t].pc \in {"idle", "replied"}
    /\ InHand <= MaxChannel
    /\ \E body \in LockBodies(package_ids) :
           tasks' = [tasks EXCEPT ![t] =
                        Task("waiting", body.id, Dispatched(body), FALSE, None, None)]
    /\ UNCHANGED <<now, timeout, package_ids, transfers, chunk_dirs, package_files,
                   services, channel, sweeper, coordinator, backend_services, call>>

\* lock() returns and the handler does its work; the chunk handler goes on to
\* lock() of the services mutex
Lock(t) ==
    /\ tasks[t].pc = "waiting"
    /\ Holders(FirstMutex(tasks[t].service)) = {}
    /\ \E body \in LockBodies(package_ids) :
          /\ Dispatched(body) = tasks[t].service
          /\ \E v \in {handle_message(body, State(transfers, chunk_dirs, package_files,
                                                  services, now), NoFault)} :
                /\ transfers' = v.transfers
                /\ chunk_dirs' = v.dirs
                /\ package_files' = v.files
                /\ services' = v.services
                /\ tasks' = [tasks EXCEPT ![t] =
                       Task(IF tasks[t].service = Some("/sota/chunk") /\ Found(body, transfers)
                            THEN "acking" ELSE "holding",
                            body.id, Dispatched(body), Found(body, transfers),
                            v.message, v.resp)]
    /\ UNCHANGED <<now, timeout, package_ids, channel, sweeper, coordinator,
                   backend_services, call>>

\* the chunk handler gets the services mutex and copies the URL
Snapshot(t) ==
    /\ tasks[t].pc = "acking"
    /\ Holders("services") = {}
    /\ tasks' = [tasks EXCEPT ![t] = [@ EXCEPT !.pc = "snapshot"]]
    /\ UNCHANGED <<now, timeout, package_ids, transfers, chunk_dirs, package_files,
                   services, channel, sweeper, coordinator, backend_services, call>>

\* the handler returns and its guards are dropped
Unlock(t) ==
    /\ tasks[t].pc \in {"holding", "snapshot"}
    /\ tasks' = [tasks EXCEPT ![t] =
           [@ EXCEPT !.pc = IF IsSome(tasks[t].message) THEN "handled" ELSE "replied"]]
    /\ UNCHANGED <<now, timeout, package_ids, transfers, chunk_dirs, package_files,
                   services, channel, sweeper, coordinator, backend_services, call>>

\* push_notify: self.sender.lock() returns
LockSender(t) ==
    /\ tasks[t].pc = "handled"
    /\ Holders("sender") = {}
    /\ tasks' = [tasks EXCEPT ![t] = [@ EXCEPT !.pc = "sending"]]
    /\ UNCHANGED <<now, timeout, package_ids, transfers, chunk_dirs, package_files,
                   services, channel, sweeper, coordinator, backend_services, call>>

\* push_notify: send(m) on the unbounded channel, and the guard is dropped
Send(t) ==
    /\ tasks[t].pc = "sending"
    /\ channel' = Append(channel, Unwrap(tasks[t].message))
    /\ tasks' = [tasks EXCEPT ![t] = [@ EXCEPT !.pc = "pushed", !.message = None]]
    /\ UNCHANGED <<now, timeout, package_ids, transfers, chunk_dirs, package_files,
                   services, sweeper, coordinator, backend_services, call>>

\* the sweep going through the table without its mutex
SweepBarging == SweeperSweep

\* start_timer: transfers.lock() returns, the table is swept and unlocked
SweepLocked ==
    /\ Holders("transfers") = {}
    /\ SweeperSweep

-----------------------------------------------------------------------------
(* Specifications *)

\* the agent: request tasks, the clock, the sweeper, the coordinator
Next ==
    \/ \E t \in Tasks : Request(t)
    \/ \E t \in Tasks : push_notify(t)
    \/ \E t \in Tasks : Reply(t)
    \/ Tick
    \/ SweeperStart
    \/ SweeperWake
    \/ SweeperSweep
    \/ CoordRecv
    \/ CoordInstall
    \/ CoordSend
    \/ CoordFailed

Spec == Init /\ [][Next]_vars

\* the dispatcher serving one request after the other: every kind of request
InitRpc == Boot({None}, {OnePackage})

NextRpc ==
    \/ RpcRequest(1)
    \/ push_notify(1)
    \/ Reply(1)
    \/ CoordRecv
    \/ CoordInstall
    \/ CoordReport
    \/ CoordSend
    \/ CoordFailed

SpecRpc == InitRpc /\ [][NextRpc]_vars

\* the sequence Notify, Start, Chunk, Finish delivered request by request,
\* next to the listener of sota_dbus and the coordinator
NextSeq ==
    \/ SeqRequest(1)
    \/ push_notify(1)
    \/ Reply(1)
    \/ DbusInitiate
    \/ CoordRecv
    \/ CoordInstall
    \/ CoordSend
    \/ CoordFailed

SpecSeq == InitRpc /\ [][NextSeq]_vars

\* the coordinator next to the handlers that notify and the listener of
\* sota_dbus; the coordinator thread is scheduled, and the calls it makes
\* (request_install, request_report, send_message) return
NextCoord ==
    \/ CoordRequest(1)
    \/ push_notify(1)
    \/ Reply(1)
    \/ DbusInitiate
    \/ CoordRecv
    \/ CoordInstall
    \/ CoordReport
    \/ CoordSend
    \/ CoordFailed

SpecCoord ==
    /\ InitRpc
    /\ [][NextCoord]_vars
    /\ WF_vars(CoordRecv)
    /\ WF_vars(CoordInstall)
    /\ WF_vars(CoordReport)
    /\ WF_vars(CoordSend)
    /\ WF_vars(CoordFailed)

\* the table with two packages and the requests that touch a Transfer
InitTable == Boot({None}, {TwoPackages, ClashingPackages})

NextTable ==
    \/ TableRequest(1)
    \/ push_notify(1)
    \/ Reply(1)
    \/ CoordRecv
    \/ CoordInstall
    \/ CoordSend
    \/ CoordFailed

SpecTable == InitTable /\ [][NextTable]_vars

\* the agent with or without a timeout, and every request that begins or
\* ends the life of a Transfer
NextLife ==
    \/ \E t \in Tasks : LifeRequest(t)
    \/ \E t \in Tasks : push_notify(t)
    \/ \E t \in Tasks : Reply(t)
    \/ ClockTick
    \/ SweeperStart
    \/ SweeperWake
    \/ SweeperSweep
    \/ CoordRecv
    \/ CoordInstall
    \/ CoordSend
    \/ CoordFailed

SpecLife == Init /\ [][NextLife]_vars

\* the agent with a timeout, next to a backend that sends chunk requests, good
\* or bad, in time
InitAlive == Boot({Some(TimeoutSecs)}, {OnePackage})

NextAlive ==
    \/ \E t \in Tasks : Request(t)
    \/ \E t \in Tasks : push_notify(t)
    \/ \E t \in Tasks : Reply(t)
    \/ PunctualTick
    \/ SweeperStart
    \/ SweeperWake
    \/ SweeperSweep
    \/ CoordRecv
    \/ CoordInstall
    \/ CoordSend
    \/ CoordFailed

SpecAlive == InitAlive /\ [][NextAlive]_vars

\* the server pool with requests in hand at once, and the coordinator
NextRace ==
    \/ \E t \in Racers : RaceRequest(t)
    \/ \E t \in Racers : push_notify(t)
    \/ \E t \in Racers : Reply(t)
    \/ CoordRecv
    \/ CoordInstall
    \/ CoordSend
    \/ CoordFailed

SpecRace == InitRace /\ [][NextRace]_vars

\* the threads mutex by mutex: the server pool, the sweeper, the coordinator.
\* A task that has a mutex is scheduled: it leaves the handler, and it sends;
\* and the chunk handler that finds the services mutex free again and again
\* gets it.  Nothing is assumed of the tasks that wait with no mutex.
InitLocks == BootRace(Some(TimeoutSecs))

NextLocks ==
    \/ \E t \in Racers : Arrive(t)
    \/ \E t \in Racers : Lock(t)
    \/ \E t \in Racers : Snapshot(t)
    \/ \E t \in Racers : Unlock(t)
    \/ \E t \in Racers : LockSender(t)
    \/ \E t \in Racers : Send(t)
    \/ \E t \in Racers : Reply(t)
    \/ Tick
    \/ SweeperStart
    \/ SweeperWake
    \/ SweepLocked
    \/ CoordRecv

SpecLocks ==
    /\ InitLocks
    /\ [][NextLocks]_vars
    /\ \A t \in Racers : WF_vars(Unlock(t)) /\ WF_vars(Send(t)) /\ SF_vars(Snapshot(t))

\* a Transfer under every payload, index, I/O error and listing order
NextTransfer ==
    \/ WriteChunk
    \/ AssembleChunks
    \/ AssemblePackage

SpecTransfer == InitTransfer /\ [][NextTransfer]_vars

-----------------------------------------------------------------------------
(* Properties of Transfer, under SpecTransfer *)

\* the Transfer under test, its package file and its chunk directory
SubjectFile ==
    LET path == get_package_path(transfers[Subject])
    IN IF path \in DOMAIN package_files THEN Some(package_files[path]) ELSE None

SubjectChunks ==
    LET dir == chunk_dir_path(transfers[Subject])
    IN IF dir \in DOMAIN chunk_dirs THEN chunk_dirs[dir] ELSE EmptyMap

\* the chunk files of `entries` named by `indices`, lowest index first
RECURSIVE Concatenated(_, _)
Concatenated(entries, indices) ==
    IF indices = {} THEN <<>>
    ELSE LET i == Min(indices)
         IN (IF to_string(i) \in DOMAIN entries THEN entries[to_string(i)] ELSE <<>>)
            \o Concatenated(entries, indices \ {i})

\* the package file holds a digest equal to the configured checksum
ChecksumMatches ==
    IsSome(SubjectFile) /\ Sha1Hex(Unwrap(SubjectFile)) = transfers[Subject].checksum

\* C2: when assemble_package returns true the configured checksum is the hex
\* digest of the package file it has just written, and that file is the
\* concatenation of every chunk file of the chunk directory; a call that meets
\* no I/O error returns true exactly when the two are equal, whatever indices
\* are present (a call that meets one returns false); a checksum that is no
\* digest always yields false.
C2_ChecksumDecides ==
    call.op = "assemble_package" =>
        /\ call.result =>
               /\ ChecksumMatches
               /\ Unwrap(SubjectFile) = Concatenated(SubjectChunks, ChunkIndices)
        /\ call.fault = "none" =>
               /\ call.result <=> ChecksumMatches
               /\ SubjectFile = Some(Concatenated(SubjectChunks, ChunkIndices))
        /\ transfers[Subject].checksum = ChecksumInvalid => ~call.result

\* assemble_package has returned true for a package of two chunks
C2_Witness ==
    /\ call.op = "assemble_package"
    /\ call.result
    /\ SubjectFile = Some(TestData)
    /\ Cardinality(DOMAIN SubjectChunks) = 2

\* C3: a chunk written by write_chunk is on disk under its index with its
\* decoded content; after assemble_chunks (alone or in assemble_package) has
\* succeeded the package file is the concatenation of the chunk files in
\* ascending numeric index order, whatever the file held before and in
\* whatever order the chunks arrived or the directory is listed.
C3_AssembledInOrder ==
    /\ (call.op = "write_chunk" /\ call.result) =>
           /\ to_string(call.index) \in DOMAIN SubjectChunks
           /\ SubjectChunks[to_string(call.index)] = from_base64(call.msg).bytes
    /\ (call.op \in {"assemble_chunks", "assemble_package"} /\ call.result) =>
           SubjectFile = Some(Concatenated(SubjectChunks, ChunkIndices))
    /\ (call.op = "assemble_chunks" /\ call.fault = "none") => call.result

\* assemble_chunks has put the chunks 9 and 10, written as 10 then 9 or as
\* 9 then 10, together as "test\n"
C3_Witness ==
    /\ call.op = "assemble_chunks"
    /\ call.result
    /\ transfers[Subject].transferred_chunks = << 9, 10 >>
    /\ SubjectChunks[to_string(9)] = << 116, 101 >>
    /\ SubjectChunks[to_string(10)] = << 115, 116, 10 >>
    /\ SubjectFile = Some(TestData)

-----------------------------------------------------------------------------
(* Properties of the dispatcher and the handlers, under SpecRpc: what a      *)
(* request does to the state it meets, for every reachable state             *)

\* the state a request meets
Here == State(transfers, chunk_dirs, package_files, services, now)

\* what handle_message makes of `body` here
Served(body, io) == handle_message(body, Here, io)

FinishBody(p) == MessageBody(1, "/sota/finish", [package |-> p])

StartBody(p, c) ==
    MessageBody(1, "/sota/start",
                [package |-> p, chunkscount |-> MaxIndex + 1, checksum |-> c])

\* C1: finish for a package without a Transfer fails.  Otherwise it runs
\* assemble_package: on true the Transfer leaves the table, its chunk
\* directory is gone, the assembled package file stays and exactly one
\* notification, Finish{P}, is handed to push_notify; on false the Transfer
\* stays in the table as it was, the handler fails and nothing is notified.
C1_Finish ==
    \A p \in package_ids : \A io \in IoEnvs(FinishBody(p)) :
        LET v == Served(FinishBody(p), io)
        IN IF p \notin DOMAIN transfers
           THEN /\ ~v.panic
                /\ v.resp = Some(unspecified(1))
                /\ v.message = None
                /\ v.transfers = transfers
           ELSE LET self == transfers[p]
                    path == get_package_path(self)
                    a == assemble_package(self, chunk_dirs, package_files, io)
                IN IF a.result
                   THEN /\ ~v.panic
                        /\ p \notin DOMAIN v.transfers
                        /\ chunk_dir_path(self) \notin DOMAIN v.dirs
                        /\ path \in DOMAIN v.files
                        /\ v.files[path] = a.files[path]
                        /\ v.message = Some(Finish(p))
                        /\ v.resp = None
                   ELSE /\ ~v.panic
                        /\ v.transfers = transfers
                        /\ v.message = None
                        /\ v.resp = Some(unspecified(1))

\* a finish has succeeded: its notification is on the channel, the Transfer
\* and the chunk directory are gone, the package file is there
C1_Witness ==
    \E p \in package_ids :
        /\ tasks[1].service = Some("/sota/finish")
        /\ tasks[1].found
        /\ tasks[1].pc = "pushed"
        /\ channel = << Finish(p) >>
        /\ p \notin DOMAIN transfers
        /\ chunk_dirs = EmptyMap
        /\ DOMAIN package_files # {}

\* C4: start for a package P, whatever the table and the disk hold for P,
\* leaves exactly one Transfer for P: it carries the checksum of this start
\* and an empty index set, and the chunk directory of P holds no chunk file;
\* the other entries are untouched.  At all times every index of a Transfer's
\* index set has its chunk file in the chunk directory, so that the indices
\* and the chunk files of P are those written after the last start.
C4_StartReplaces ==
    /\ \A p \in package_ids : \A c \in {ChecksumTe, ChecksumInvalid} :
           LET v == Served(StartBody(p, c), NoFault)
               dir == chunk_dir_path(NewTransfer(storage_dir, p, c, now))
           IN /\ v.resp = Some(OkResponse(1))
              /\ DOMAIN v.transfers = DOMAIN transfers \cup {p}
              /\ v.transfers[p].package = p
              /\ v.transfers[p].checksum = c
              /\ v.transfers[p].transferred_chunks = <<>>
              /\ dir \in DOMAIN v.dirs => v.dirs[dir] = EmptyMap
              /\ \A q \in DOMAIN transfers \ {p} : v.transfers[q] = transfers[q]
    /\ \A p \in DOMAIN transfers :
           \A k \in 1..Len(transfers[p].transferred_chunks) :
               /\ chunk_dir_path(transfers[p]) \in DOMAIN chunk_dirs
               /\ to_string(transfers[p].transferred_chunks[k])
                      \in DOMAIN chunk_dirs[chunk_dir_path(transfers[p])]

\* a start has replaced a Transfer: the new one has no chunks and no chunk
\* directory
C4_Witness ==
    \E p \in package_ids :
        /\ tasks[1].service = Some("/sota/start")
        /\ tasks[1].found
        /\ tasks[1].resp = Some(OkResponse(1))
        /\ p \in DOMAIN transfers
        /\ transfers[p].transferred_chunks = <<>>
        /\ chunk_dirs = EmptyMap
        /\ DOMAIN package_files # {}

\* the envelope of `body` carries an integer id and a string method
HasIdAndMethod(body) ==
    body.json = "object" /\ IsSome(body.id) /\ IsSome(body.method)

\* the service path `body` names, if it names one
ServiceName(body) ==
    IF IsSome(body.params) THEN Unwrap(body.params).service_name ELSE None

IsRegistered(service) ==
    service \in { "/sota/notify", "/sota/start", "/sota/chunk",
                  "/sota/finish", "/sota/getpackages", "/sota/abort" }

\* the request leaves the transfers, the disk and the services alone and
\* notifies nothing
NoHandlerRan(v) ==
    /\ v.transfers = transfers
    /\ v.dirs = chunk_dirs
    /\ v.files = package_files
    /\ v.services = services
    /\ v.message = None

\* C6: for a request with an integer id and a string method: method
\* services_available yields OK with that id; a method other than
\* services_available and message yields -32601 with that id; a message
\* request to a service path that is not registered yields -32600; a message
\* request to a registered path whose typed payload does not decode yields
\* -32602 and runs no handler.
C6_Routing ==
    \A body \in RpcBodies(package_ids) : \A io \in IoEnvs(body) :
        HasIdAndMethod(body) =>
            LET v == Served(body, io)
                id == Unwrap(body.id)
                method == Unwrap(body.method)
                service == ServiceName(body)
            IN /\ method = "services_available" =>
                      v.resp = Some([id |-> Some(id), error |-> None]) /\ NoHandlerRan(v)
               /\ method \notin {"services_available", "message"} =>
                      v.resp = Some([id |-> Some(id), error |-> Some(-32601)])
                      /\ NoHandlerRan(v)
               /\ (method = "message" /\ IsSome(service) /\ ~IsRegistered(Unwrap(service))) =>
                      v.resp = Some([id |-> Some(id), error |-> Some(-32600)])
                      /\ NoHandlerRan(v)
               /\ (method = "message" /\ IsSome(service) /\ IsRegistered(Unwrap(service))
                       /\ ~Decodes(Unwrap(service), body)) =>
                      v.resp = Some([id |-> Some(id), error |-> Some(-32602)])
                      /\ NoHandlerRan(v)

\* a start request without checksum has been answered -32602 and the Transfer
\* it names is still there, with its chunk
C6_Witness ==
    \E p \in package_ids :
        /\ tasks[1].pc = "replied"
        /\ tasks[1].resp = Some([id |-> Some(2), error |-> Some(-32602)])
        /\ p \in DOMAIN transfers
        /\ transfers[p].transferred_chunks = << 9 >>

\* the payload of a request whose payload decodes
Payload(body) == Unwrap(Unwrap(body.params).parameters)[1]

\* C7: for every message request whose typed payload decodes, the handler
\* returning true leads to OkResponse(id), after its notification, if it has
\* one, has been pushed onto the channel; the handler returning false leads to
\* the unspecified error at once, and nothing is pushed.  A task pushes
\* exactly the notification of its handler, only between the handler's return
\* and the OK reply, and nothing else is pushed.
C7_ReplyFollowsHandler ==
    /\ [](\A body \in RpcBodies(package_ids) : \A io \in IoEnvs(body) :
              IsSome(Dispatched(body)) =>
                  LET service == Unwrap(Dispatched(body))
                      v == Served(body, io)
                      out == handle(service, Payload(body), Here, io)
                      m == get_message(service, Payload(body))
                  IN /\ ~v.panic
                     /\ out.result /\ IsSome(m) => v.message = m /\ v.resp = None
                     /\ out.result /\ ~IsSome(m) =>
                            v.message = None /\ v.resp = Some(OkResponse(Unwrap(body.id)))
                     /\ ~out.result =>
                            v.message = None /\ v.resp = Some(unspecified(Unwrap(body.id))))
    /\ [](\A t \in Tasks :
              /\ tasks[t].pc = "handled" => IsSome(tasks[t].message) /\ tasks[t].resp = None
              /\ tasks[t].pc = "pushed" => tasks[t].resp = None)
    /\ [][\A t \in Tasks :
              /\ (tasks[t].pc = "handled" /\ tasks'[t] # tasks[t]) =>
                     /\ tasks'[t].pc = "pushed"
                     /\ channel' = Append(channel, Unwrap(tasks[t].message))
              /\ (tasks[t].pc = "pushed" /\ tasks'[t] # tasks[t]) =>
                     /\ tasks'[t].pc = "replied"
                     /\ tasks'[t].resp = Some(OkResponse(Unwrap(tasks[t].id)))
                     /\ channel' = channel
              /\ (tasks[t].pc \notin {"handled", "pushed"} /\ tasks'[t] # tasks[t]) =>
                     Len(channel') <= Len(channel)]_vars

\* a finish has been answered OK after its notification has reached the
\* coordinator
C7_Witness ==
    /\ tasks[1].service = Some("/sota/finish")
    /\ tasks[1].pc = "replied"
    /\ tasks[1].resp = Some(OkResponse(1))
    /\ coordinator.pc = "install"

\* C8: whatever the request body, the dispatcher produces one response, OK or
\* error, and the request task does not abort.
C8_AlwaysResponds ==
    \A body \in RpcBodies(package_ids) : \A io \in IoEnvs(body) :
        LET v == Served(body, io)
        IN ~v.panic /\ (IsSome(v.resp) \/ IsSome(v.message))

\* C9: a body that is valid JSON whose envelope lacks an integer id, a string
\* method or an object params is answered -32600; -32700 answers only a body
\* that does not parse as JSON.
C9_EnvelopeShape ==
    \A body \in RpcBodies(package_ids) : \A io \in IoEnvs(body) :
        LET v == Served(body, io)
        IN /\ (body.json # "malformed"
                 /\ (body.json # "object" \/ ~IsSome(body.id) \/ ~IsSome(body.method)
                        \/ ~IsSome(body.params))) =>
                  (IsSome(v.resp) /\ Unwrap(v.resp).error = Some(-32600))
           /\ (IsSome(v.resp) /\ Unwrap(v.resp).error = Some(-32700)) =>
                  body.json = "malformed"

-----------------------------------------------------------------------------
(* Properties of the agent, under Spec: the sweeper, and requests that fail  *)

ChunkBody(p, i, m) ==
    MessageBody(1, "/sota/chunk", [package |-> p, index |-> i, msg |-> m])

\* the handler of `v` has reported failure
Failed(v) == ~v.panic /\ v.resp # Some(OkResponse(1)) /\ v.message = None

\* the entries of directory `dir` in `dirs`; none if it does not exist
Entries(dirs, dir) == IF dir \in DOMAIN dirs THEN dirs[dir] ELSE EmptyMap

\* `after` is `before`, except that `dir` may have been created and the
\* entries of `names` in it written, created or not
SameBut(before, after, dir, names) ==
    /\ DOMAIN before \subseteq DOMAIN after
    /\ DOMAIN after \subseteq DOMAIN before \cup {dir}
    /\ \A d \in DOMAIN before \ {dir} : after[d] = before[d]
    /\ DOMAIN Entries(after, dir) \ names = DOMAIN Entries(before, dir) \ names
    /\ \A n \in DOMAIN Entries(before, dir) \ names :
           Entries(after, dir)[n] = Entries(before, dir)[n]

\* C10 as stated: a chunk or a finish that fails is answered with the
\* unspecified error and leaves the table, every Transfer, the chunk files and
\* the package files as they were.
C10_FailureChangesNothing ==
    \A p \in package_ids :
        /\ \A i \in ChunkIndices : \A m \in {MsgTe, MsgSt, MsgBadByte, MsgBadLength} :
           \A io \in WriteFaults :
               LET v == Served(ChunkBody(p, i, m), io)
               IN Failed(v) =>
                      /\ v.resp = Some(unspecified(1))
                      /\ v.transfers = transfers
                      /\ v.dirs = chunk_dirs
                      /\ v.files = package_files
        /\ \A io \in AssembleFaults :
               LET v == Served(FinishBody(p), io)
               IN Failed(v) =>
                      /\ v.resp = Some(unspecified(1))
                      /\ v.transfers = transfers
                      /\ v.dirs = chunk_dirs
                      /\ v.files = package_files

\* C10, as amended: a chunk or a finish that fails is answered with the
\* unspecified error, notifies nothing, and leaves the table with the same
\* entries and every Transfer with the same checksum and transferred_chunks.
\* For a missing Transfer nothing changes at all.  A failed chunk sets
\* last_chunk_received of its Transfer to now, and may leave the chunk
\* directory created and the file of its own index created or overwritten;
\* every other file is as before.  A failed finish leaves every Transfer and
\* every chunk file as before, and may leave the chunk directory created and
\* the package file of its package created or rewritten; every other package
\* file is as before.
C10_FailureKeepsTable ==
    \A p \in package_ids :
        /\ \A i \in ChunkIndices : \A m \in {MsgTe, MsgSt, MsgBadByte, MsgBadLength} :
           \A io \in WriteFaults :
               LET v == Served(ChunkBody(p, i, m), io)
               IN Failed(v) =>
                      /\ v.resp = Some(unspecified(1))
                      /\ v.services = services
                      /\ v.files = package_files
                      /\ IF p \notin DOMAIN transfers
                         THEN v.transfers = transfers /\ v.dirs = chunk_dirs
                         ELSE /\ v.transfers =
                                     [transfers EXCEPT ![p].last_chunk_received = now]
                              /\ SameBut(chunk_dirs, v.dirs, chunk_dir_path(transfers[p]),
                                         {to_string(i)})
        /\ \A io \in AssembleFaults :
               LET v == Served(FinishBody(p), io)
               IN Failed(v) =>
                      /\ v.resp = Some(unspecified(1))
                      /\ v.services = services
                      /\ v.transfers = transfers
                      /\ IF p \notin DOMAIN transfers
                         THEN v.dirs = chunk_dirs /\ v.files = package_files
                         ELSE /\ SameBut(chunk_dirs, v.dirs, chunk_dir_path(transfers[p]), {})
                              /\ DOMAIN package_files \subseteq DOMAIN v.files
                              /\ DOMAIN v.files \subseteq DOMAIN package_files
                                     \cup {get_package_path(transfers[p])}
                              /\ \A f \in DOMAIN package_files
                                         \ {get_package_path(transfers[p])} :
                                     v.files[f] = package_files[f]

\* a chunk with an undecodable payload has failed for a Transfer that holds a
\* chunk: the reply is the unspecified error, the chunk is still recorded and
\* on disk, and last_chunk_received is the time of the failed request
C10_Witness ==
    \E p \in DOMAIN transfers :
        /\ tasks[1].service = Some("/sota/chunk")
        /\ tasks[1].found
        /\ tasks[1].resp = Some(unspecified(1))
        /\ transfers[p].transferred_chunks = << 9 >>
        /\ transfers[p].last_chunk_received = now
        /\ now > 0
        /\ chunk_dirs[chunk_dir_path(transfers[p])][to_string(9)] = << 116, 101 >>

-----------------------------------------------------------------------------
(* Properties of the chunk handler, under SpecRpc *)

\* C11: a chunk for a package without a Transfer fails, creates no Transfer,
\* writes no file and notifies nothing.  For a package with a Transfer the
\* chunk handler does what write_chunk does and answers with its boolean,
\* which is true exactly when the payload decodes and the bytes reach the
\* chunk file; it notifies nothing.
C11_ChunkDelegates ==
    \A p \in package_ids : \A i \in ChunkIndices :
    \A m \in {MsgTe, MsgSt, MsgBadByte, MsgBadLength} : \A io \in WriteFaults :
        LET v == Served(ChunkBody(p, i, m), io)
        IN /\ ~v.panic
           /\ v.message = None
           /\ v.services = services
           /\ v.files = package_files
           /\ IF p \notin DOMAIN transfers
              THEN /\ v.resp = Some(unspecified(1))
                   /\ v.transfers = transfers
                   /\ v.dirs = chunk_dirs
              ELSE LET w == write_chunk(transfers[p], m, i, chunk_dirs, io, now)
                       dir == chunk_dir_path(transfers[p])
                   IN /\ v.resp = IF w.success THEN Some(OkResponse(1))
                                  ELSE Some(unspecified(1))
                      /\ v.transfers = Put(transfers, p, w.transfer)
                      /\ v.dirs = w.dirs
                      /\ w.success <=> (from_base64(m).ok /\ io.fail = "none")
                      /\ w.success => /\ dir \in DOMAIN v.dirs
                                      /\ to_string(i) \in DOMAIN v.dirs[dir]
                                      /\ v.dirs[dir][to_string(i)] = from_base64(m).bytes

\* a chunk has failed for a package that was finished before: no Transfer and
\* no chunk directory have come of it, the package file is there
C11_Witness ==
    /\ tasks[1].service = Some("/sota/chunk")
    /\ ~tasks[1].found
    /\ tasks[1].resp = Some(unspecified(1))
    /\ transfers = EmptyMap
    /\ chunk_dirs = EmptyMap
    /\ DOMAIN package_files # {}

-----------------------------------------------------------------------------
(* Properties of the table with several packages, under SpecTable *)

AbortBody(p) == MessageBody(1, "/sota/abort", [package |-> p])

\* the chunk directory of package `p`
ChunkDirOf(p) == chunk_dir_path(NewTransfer(storage_dir, p, <<>>, 0))

\* C12: abort for P succeeds whether or not P has a Transfer; afterwards the
\* table has no Transfer for P and the chunk directory of P does not exist;
\* every other entry of the table, the chunk files of every other package,
\* the package files and the channel are as before.
C12_AbortFrame ==
    \A p \in package_ids :
        LET v == Served(AbortBody(p), NoFault)
        IN /\ ~v.panic
           /\ v.resp = Some(OkResponse(1))
           /\ v.message = None
           /\ DOMAIN v.transfers = DOMAIN transfers \ {p}
           /\ \A q \in DOMAIN v.transfers : v.transfers[q] = transfers[q]
           /\ ChunkDirOf(p) \notin DOMAIN v.dirs
           /\ \A q \in package_ids \ {p} :
                  /\ ChunkDirOf(q) \in DOMAIN chunk_dirs <=> ChunkDirOf(q) \in DOMAIN v.dirs
                  /\ Entries(v.dirs, ChunkDirOf(q)) = Entries(chunk_dirs, ChunkDirOf(q))
           /\ v.files = package_files
           /\ v.services = services

\* C19: two Transfers of the table with distinct PackageIds have distinct
\* chunk directories and distinct package paths.
C19_DisjointPaths ==
    \A p, q \in DOMAIN transfers :
        p # q => /\ chunk_dir_path(transfers[p]) # chunk_dir_path(transfers[q])
                 /\ get_package_path(transfers[p]) # get_package_path(transfers[q])

\* the decoded bytes of the payloads that can be written
WrittenBytes ==
    { from_base64(m).bytes : m \in {n \in {MsgTe, MsgSt, MsgBadByte, MsgBadLength} :
                                        from_base64(n).ok} }

\* C17: for every Transfer of the table, transferred_chunks is strictly
\* ascending, and every index in it has a chunk file of that name in the chunk
\* directory of the Transfer, holding the decoded bytes of a chunk that was
\* written.
C17_ChunksOnDisk ==
    \A p \in DOMAIN transfers :
        LET chunks == transfers[p].transferred_chunks
            dir == chunk_dir_path(transfers[p])
        IN /\ \A k \in 1..(Len(chunks) - 1) : chunks[k] < chunks[k + 1]
           /\ \A k \in 1..Len(chunks) :
                  /\ dir \in DOMAIN chunk_dirs
                  /\ to_string(chunks[k]) \in DOMAIN chunk_dirs[dir]
                  /\ chunk_dirs[dir][to_string(chunks[k])] \in WrittenBytes

C20_DropHygiene ==
    /\ [](\A p \in DOMAIN transfers :
              LET self == transfers[p]
                  dropped == Drop(self, chunk_dirs)
              IN /\ DOMAIN dropped = DOMAIN chunk_dirs \ {chunk_dir_path(self)}
                 /\ \A d \in DOMAIN dropped : dropped[d] = chunk_dirs[d]
                 /\ \A io \in AssembleFaults :
                        LET v == Served(FinishBody(p), io)
                            a == assemble_package(self, chunk_dirs, package_files, io)
                        IN ~Failed(v) => /\ p \notin DOMAIN v.transfers
                                         /\ chunk_dir_path(self) \notin DOMAIN v.dirs
                                         /\ v.files = a.files
                                         /\ get_package_path(self) \in DOMAIN v.files
                 /\ LET v == Served(AbortBody(p), NoFault)
                    IN /\ p \notin DOMAIN v.transfers
                       /\ chunk_dir_path(self) \notin DOMAIN v.dirs
                       /\ v.files = package_files
                 /\ \A c \in {ChecksumTe, ChecksumInvalid} :
                        LET v == Served(StartBody(p, c), NoFault)
                        IN /\ chunk_dir_path(self) \notin DOMAIN v.dirs
                           /\ v.files = package_files)
    /\ [][\A p \in DOMAIN transfers :
              (sweeper.pc = "woken" /\ sweeper'.pc = "sleep" /\ p \notin DOMAIN transfers') =>
                  /\ chunk_dir_path(transfers[p]) \notin DOMAIN chunk_dirs'
                  /\ package_files' = package_files]_vars

\* the sweeper has evicted a Transfer that held a chunk: no chunk directory is
\* left and the package file of an earlier finish is still there
C20_Witness ==
    /\ sweeper.pc = "sleep"
    /\ \E tr \in sweeper.dropped : tr.transferred_chunks # <<>>
    /\ transfers = EmptyMap
    /\ chunk_dirs = EmptyMap
    /\ \E f \in DOMAIN package_files : package_files[f] = << 116, 101 >>

-----------------------------------------------------------------------------
(* Properties of the channel and the coordinator *)

\* how many notifications the handlers of the sequence have sent so far
Sent ==
    CASE Delivered(1) = 0 -> 0
      [] Delivered(1) = 1 -> IF tasks[1].pc = "handled" THEN 0 ELSE 1
      [] Delivered(1) \in {2, 3} -> 1
      [] Delivered(1) = 4 -> IF tasks[1].pc = "handled" THEN 1 ELSE 2

\* the notification the n-th one sent by the handlers of the sequence is to be
Note(n) ==
    IF n = 1 THEN Notify(ServicesA, {Subject}) ELSE Finish(Subject)

\* the coordinator takes the notification that has waited longest
Consumes ==
    /\ coordinator.pc = "recv"
    /\ channel # <<>>
    /\ channel' = Tail(channel)
    /\ IF Head(channel).kind = "Notify"
       THEN backend_services' = Head(channel).services /\ coordinator'.pc = "recv"
       ELSE coordinator'.msg = Some(Head(channel)) /\ coordinator'.pc # "recv"

\* C13: the requests Notify, Start, Chunk, Finish, delivered one after the
\* other, all succeed; Start and Chunk send nothing; the handlers send two
\* notifications, the Notify and then the Finish, each appended to the channel
\* behind what waits there; the coordinator takes notifications from the
\* front of the channel, whoever sent them.
C13_NotificationOrder ==
    /\ [](/\ Delivered(1) \in 0..4
          /\ tasks[1].pc \in {"handled", "pushed"} => Delivered(1) \in {1, 4}
          /\ tasks[1].pc = "replied" =>
                 tasks[1].resp = Some(OkResponse(Delivered(1))))
    /\ [][/\ Delivered(1)' >= Delivered(1)
          /\ \/ Sent' = Sent + 1 /\ channel' = Append(channel, Note(Sent'))
             \/ Sent' = Sent /\ channel' = channel
             \/ Sent' = Sent /\ channel' = Append(channel, Initiate(package_ids))
             \/ Sent' = Sent /\ Consumes]_vars

\* the Notify and the Finish of the sequence wait on the channel in that
\* order, an Initiate of the listener between them
C13_Witness ==
    /\ Delivered(1) = 4
    /\ tasks[1].pc = "pushed"
    /\ channel = << Notify(ServicesA, {Subject}), Initiate(package_ids), Finish(Subject) >>

\* C14: the coordinator asks for an install only for the Finish it has just
\* taken from the channel; when the install has returned it sends one report,
\* to the report URL, and nothing else in between; a Finish reaches the
\* channel only from the finish handler, and a finish whose Transfer is
\* missing or whose assemble_package is false notifies nothing.
C14_InstallThenReport ==
    /\ [](/\ coordinator.pc = "install" =>
                 coordinator.msg \in {Some(Finish(p)) : p \in package_ids}
          /\ \A t \in Tasks :
                 (tasks[t].pc = "handled" /\ Unwrap(tasks[t].message).kind = "Finish") =>
                     tasks[t].service = Some("/sota/finish") /\ tasks[t].found
          /\ \A p \in package_ids : \A io \in AssembleFaults :
                 LET v == Served(FinishBody(p), io)
                 IN (\/ p \notin DOMAIN transfers
                     \/ ~assemble_package(transfers[p], chunk_dirs, package_files,
                                          io).result) =>
                        v.message = None /\ v.resp = Some(unspecified(1)))
    /\ [][/\ (coordinator.pc # "install" /\ coordinator'.pc = "install") =>
                 /\ coordinator.pc = "recv"
                 /\ channel # <<>>
                 /\ Head(channel).kind = "Finish"
                 /\ coordinator'.msg = Some(Head(channel))
                 /\ channel' = Tail(channel)
          /\ (coordinator.pc = "recv" /\ channel # <<>> /\ channel' = Tail(channel)
                  /\ Head(channel).kind = "Finish") =>
                 coordinator'.pc = "install"
          /\ (coordinator.pc = "install" /\ coordinator' # coordinator) =>
                 coordinator' = Coordinator("send", coordinator.msg,
                                            Some(backend_services.report))
          /\ (coordinator.pc = "send" /\ coordinator' # coordinator) =>
                 coordinator'.pc \in {"recv", "failed"}
          /\ (coordinator.pc = "failed" /\ coordinator' # coordinator) =>
                 coordinator'.pc = "recv"
          /\ \A m \in {Finish(p) : p \in package_ids} :
                 (Len(channel') > Len(channel) /\ channel'[Len(channel')] = m) =>
                     \E t \in Tasks : /\ tasks[t].pc = "handled"
                                      /\ tasks[t].message = Some(m)
                                      /\ tasks'[t].pc = "pushed"]_vars

\* the install of a finished package has returned and its report goes to the
\* report URL of the backend
C14_Witness ==
    /\ coordinator.pc = "send"
    /\ coordinator.msg = Some(Finish(Subject))
    /\ coordinator.url = Some("a/report")
    /\ DOMAIN package_files # {}

\* the URL an outbound RPC for notification `m` goes to
Endpoint(m, bs) ==
    CASE m.kind = "Initiate" -> bs.start
      [] m.kind = "Finish" -> bs.report
      [] m.kind = "Report" -> bs.packages

\* C15: every outbound RPC goes to the URL that the BackendServices of the
\* coordinator hold for its kind: start for an Initiate, report for a Finish,
\* packages for a Report; these are the services of the last Notify the
\* coordinator has taken from the channel, for nothing but taking a Notify
\* changes them.
C15_LatestEndpoints ==
    /\ [](coordinator.pc \in {"send", "failed"} =>
              coordinator.url = Some(Endpoint(Unwrap(coordinator.msg), backend_services)))
    /\ [][/\ (coordinator.pc = "recv" /\ channel # <<>> /\ channel' = Tail(channel)) =>
                 backend_services' = IF Head(channel).kind = "Notify"
                                     THEN Head(channel).services
                                     ELSE backend_services
          /\ ~(coordinator.pc = "recv" /\ channel # <<>> /\ channel' = Tail(channel)) =>
                 backend_services' = backend_services]_vars

\* an Initiate goes to the start URL of the Notify taken last, while a newer
\* Notify with other URLs waits on the channel
C15_Witness ==
    /\ backend_services = ServicesB
    /\ coordinator.pc = "send"
    /\ Unwrap(coordinator.msg).kind = "Initiate"
    /\ coordinator.url = Some("b/start")
    /\ channel = << Notify(ServicesA, package_ids) >>

\* C16: the coordinator is always in its loop: after a failed outbound RPC it
\* receives again; and with the coordinator scheduled and its calls
\* returning, every notification sent is taken from the channel: the
\* coordinator takes notifications again and again, unless the channel is
\* empty for good.
C16_CoordinatorLives ==
    /\ [](coordinator.pc \in {"recv", "install", "report", "send", "failed"})
    /\ (coordinator.pc = "failed") ~> (coordinator.pc = "recv")
    /\ ([]<><<Consumes>>_vars \/ <>[](channel = <<>>))

\* an outbound RPC has failed while a notification waits on the channel
C16_Witness ==
    /\ coordinator.pc = "failed"
    /\ channel # <<>>

-----------------------------------------------------------------------------
(* Round trip of chunk storage, under SpecTransfer *)

\* the payloads of the Transfer model
Payloads == {MsgTe, MsgSt, MsgBadByte, MsgBadLength}

\* how often `x` occurs in the sequence `s`
Occurrences(s, x) == Cardinality({k \in 1..Len(s) : s[k] = x})

\* write_chunk(msg, index) called in the state at hand, under `io`
Written(msg, index, io) ==
    write_chunk(transfers[Subject], msg, index, chunk_dirs, io, now)

\* the call has returned true, chunk file `index` holds the bytes `msg`
\* encodes and nothing else, and `index` is recorded once
Stored(w, msg, index) ==
    /\ w.success
    /\ chunk_dir_path(transfers[Subject]) \in DOMAIN w.dirs
    /\ to_string(index) \in DOMAIN w.dirs[chunk_dir_path(transfers[Subject])]
    /\ w.dirs[chunk_dir_path(transfers[Subject])][to_string(index)] = from_base64(msg).bytes
    /\ Occurrences(w.transfer.transferred_chunks, index) = 1

\* the call has returned false, and the index list and the files are as before
Refused(w) ==
    /\ ~w.success
    /\ w.transfer.transferred_chunks = transfers[Subject].transferred_chunks
    /\ w.dirs = chunk_dirs

-----------------------------------------------------------------------------
(* The agent without a timeout, under SpecLife *)

\* task `t` has just ended the Transfer of `p`: a finish that succeeded, or an
\* abort
Ended(task, p) ==
    /\ task.found
    /\ \/ task.service = Some("/sota/finish") /\ task.message = Some(Finish(p))
       \/ task.service = Some("/sota/abort") /\ task.resp = Some(OkResponse(1))

\* C22: when no timeout is configured the sweeper is never started, and a
\* Transfer leaves the table only in the step of a finish that succeeds or of
\* an abort for its package (a start replaces it and leaves the package in the
\* table), however far the clock has advanced past its last_chunk_received.
C22_NoTimeoutNoEviction ==
    /\ [](timeout = None => sweeper.pc = "off")
    /\ [][timeout = None =>
             /\ sweeper' = sweeper
             /\ \A p \in DOMAIN transfers :
                    p \notin DOMAIN transfers' =>
                        \E t \in Tasks :
                            /\ tasks[t].pc \in {"idle", "replied", "panicked"}
                            /\ Ended(tasks'[t], p)
                            /\ \A u \in Tasks \ {t} : tasks'[u] = tasks[u]]_vars

\* no timeout is configured, the clock has run to its end and the Transfer,
\* whose last chunk came at time 0, is still in the table with its chunk
C22_Witness ==
    /\ timeout = None
    /\ now = MaxTime
    /\ now > TimeoutSecs + 1
    /\ Subject \in DOMAIN transfers
    /\ transfers[Subject].last_chunk_received = 0
    /\ transfers[Subject].transferred_chunks = << 9 >>
    /\ sweeper.pc = "off"

-----------------------------------------------------------------------------
(* Chunk requests and the deadline, under SpecAlive *)

\* C23: a chunk request for a Transfer, whether its payload decodes and the
\* write succeeds or not, leaves last_chunk_received at the current time; and
\* while every Transfer gets a chunk request at least once in `timeout`
\* seconds, no sweep removes a Transfer.
C23_ChunksKeepAlive ==
    /\ \A p \in DOMAIN transfers : \A i \in ChunkIndices : \A m \in Payloads :
       \A io \in WriteFaults :
           /\ write_chunk(transfers[p], m, i, chunk_dirs, io, now)
                  .transfer.last_chunk_received = now
           /\ Served(ChunkBody(p, i, m), io).transfers[p].last_chunk_received = now
    /\ sweeper.timed_out = {}

\* the sweeper has swept at time 2 or later, and the Transfer, which has not
\* stored a chunk, is in the table: its last request was a chunk that failed
C23_Witness ==
    /\ sweeper.pc = "sleep"
    /\ sweeper.since >= 2
    /\ sweeper.since = now
    /\ Subject \in DOMAIN transfers
    /\ transfers[Subject].transferred_chunks = <<>>
    /\ transfers[Subject].last_chunk_received = now
    /\ tasks[1].service = Some("/sota/chunk")
    /\ tasks[1].found
    /\ tasks[1].resp = Some(unspecified(1))

-----------------------------------------------------------------------------
(* The sweep next to the handlers, under SpecLife *)

\* C25: the sweep decides and removes in one step, with the table locked: a
\* Transfer it removes is, in the state the sweep finds, more than `timeout`
\* seconds old by the current clock and by the clock the sweeper read before
\* it took the lock; a Transfer whose age is `timeout` or less stays, whatever
\* chunk or start came between the clock read and the sweep.
C25_SweepIsAtomic ==
    [][sweeper.pc = "woken" /\ sweeper'.pc = "sleep" =>
          /\ sweeper.time_now <= now
          /\ \A p \in DOMAIN transfers :
                 /\ p \notin DOMAIN transfers' =>
                        /\ now - transfers[p].last_chunk_received > Unwrap(timeout)
                        /\ sweeper.time_now - transfers[p].last_chunk_received
                               > Unwrap(timeout)
                 /\ p \in DOMAIN transfers' => transfers'[p] = transfers[p]]_vars

\* a sweep has just run and has kept the Transfer, whose age is exactly
\* `timeout`: its last chunk came after the start of the sweeper
C25_Witness ==
    /\ IsSome(timeout)
    /\ sweeper.pc = "sleep"
    /\ sweeper.since = now
    /\ sweeper.since > sweeper.started
    /\ sweeper.timed_out = {}
    /\ Subject \in DOMAIN transfers
    /\ transfers[Subject].transferred_chunks = << 9 >>
    /\ transfers[Subject].last_chunk_received > sweeper.started
    /\ now - transfers[Subject].last_chunk_received = Unwrap(timeout)

-----------------------------------------------------------------------------
(* Requests in hand at once, under SpecRace *)

\* C24: in the step in which the coordinator takes Finish{P} from the channel
\* to ask for the installation of P, the package file of P exists and holds
\* bytes of the checksum the finish handler verified (every Transfer of this
\* specification is started with the checksum of "te"), whatever start, chunk
\* and finish requests for P were handled since that finish.
C24_InstallsVerifiedBytes ==
    [][coordinator.pc = "recv" /\ coordinator'.pc = "install" =>
          \E path \in {get_package_path(NewTransfer(storage_dir,
                            Unwrap(coordinator'.msg).package, <<>>, 0))} :
              /\ path \in DOMAIN package_files
              /\ Sha1Hex(package_files[path]) = ChecksumTe]_vars

\* how many Finish notifications for `p` wait in the channel `ch`
Finishes(ch, p) == Len(SelectSeq(ch, LAMBDA m : m = Finish(p)))

\* C26: a finish produces a Finish notification only in the step in which it
\* takes the Transfer of its package out of the table, and no other task gets
\* anything to push in that step; a finish for a package without a Transfer
\* fails with the unspecified error, pushes nothing and changes nothing; and a
\* Finish comes onto the channel only when a task pushes the one it holds.
\* So each Transfer inserted by start gives one Finish at most, whichever tasks
\* handle the finish requests.
C26_OneFinishPerTransfer ==
    /\ [](\A p \in package_ids : \A io \in AssembleFaults :
             p \notin DOMAIN transfers =>
                 /\ Served(FinishBody(p), io).resp = Some(unspecified(1))
                 /\ Served(FinishBody(p), io).message = None
                 /\ Served(FinishBody(p), io).transfers = transfers
                 /\ Served(FinishBody(p), io).files = package_files)
    /\ [][\A p \in package_ids :
             /\ \A t \in DOMAIN tasks :
                    (tasks'[t].message = Some(Finish(p)) /\ tasks[t].message = None) =>
                        /\ p \in DOMAIN transfers
                        /\ p \notin DOMAIN transfers'
                        /\ \A u \in DOMAIN tasks \ {t} : tasks'[u] = tasks[u]
             /\ Finishes(channel', p) > Finishes(channel, p) =>
                    /\ channel' = Append(channel, Finish(p))
                    /\ \E t \in DOMAIN tasks :
                           /\ tasks[t].message = Some(Finish(p))
                           /\ tasks'[t].message = None]_vars

\* two tasks have handled a finish for the same Transfer: one succeeded and
\* has its Finish still to push, the other found no Transfer and failed
C26_Witness ==
    \E t, u \in DOMAIN tasks :
        /\ tasks[t].service = Some("/sota/finish")
        /\ tasks[t].found
        /\ tasks[t].pc = "handled"
        /\ tasks[t].message = Some(Finish(Subject))
        /\ tasks[u].service = Some("/sota/finish")
        /\ ~tasks[u].found
        /\ tasks[u].resp = Some(unspecified(1))
        /\ Subject \notin DOMAIN transfers
        /\ channel = <<>>

\* C27: whenever no notify request is in hand and the channel is empty, the
\* BackendServices of the coordinator are those of the dispatcher.
C27_CopiesAgree ==
    (/\ \A t \in DOMAIN tasks :
            tasks[t].service = Some("/sota/notify") => tasks[t].pc = "replied"
     /\ channel = <<>>)
    => backend_services = services

-----------------------------------------------------------------------------
(* The mutexes, under SpecLocks *)

Mutexes == {"transfers", "services", "sender"}

\* task `t` is in lock()
Waits(t) == IsSome(Awaited(t))

====
